---- MODULE Spec2Model ----
(***************************************************************************)
(* Model of the svelte-resizable Resizable component (src/lib/Resizable    *)
(* with its Resizer handles) and of the helpers it calls.                  *)
(*                                                                         *)
(* JavaScript values are records [k, n, d]:                                *)
(*   k = "num"    the number n/d (exact rational, d > 0, lowest terms)      *)
(*   k = "undef"  undefined                                                *)
(*   k = "nan"    NaN                                                      *)
(*   k = "auto"   the string 'auto'                                        *)
(*   k = "empty"  the empty string (an unset inline style)                 *)
(*   k = "px", "%", "vw", "vh"   the string '<n/d><k>'                      *)
(* Inputs are bounded so that no division by zero occurs.                  *)
(***************************************************************************)
EXTENDS Integers, Sequences, FiniteSets, TLC

\* ------------------------------------------------------------------------
\* Numbers
\* ------------------------------------------------------------------------
RECURSIVE GCD(_, _)
GCD(a, b) == IF b = 0 THEN a ELSE GCD(b, a % b)

AbsInt(a) == IF a < 0 THEN 0 - a ELSE a

NaN == [k |-> "nan", n |-> 0, d |-> 1]
undefined == [k |-> "undef", n |-> 0, d |-> 1]
auto == [k |-> "auto", n |-> 0, d |-> 1]
emptyString == [k |-> "empty", n |-> 0, d |-> 1]

Num(n, d) ==
  IF d = 0 THEN NaN
  ELSE LET s == IF d < 0 THEN 0 - 1 ELSE 1
           g == GCD(AbsInt(n), AbsInt(d))
       IN [k |-> "num", n |-> (s * n) \div g, d |-> (s * d) \div g]

I(n) == [k |-> "num", n |-> n, d |-> 1]

Str(v, unit) == [k |-> unit, n |-> v.n, d |-> v.d]

IsNum(v) == v.k = "num"
IsString(v) == v.k \in {"auto", "empty", "px", "%", "vw", "vh"}

\* ToNumber of a value used as an arithmetic operand
ToNumber(v) == IF v.k = "num" THEN v
               ELSE IF v.k = "empty" THEN I(0)
               ELSE NaN

Add(a, b) == LET x == ToNumber(a) y == ToNumber(b) IN
  IF IsNum(x) /\ IsNum(y) THEN Num(x.n * y.d + y.n * x.d, x.d * y.d) ELSE NaN
Sub(a, b) == LET x == ToNumber(a) y == ToNumber(b) IN
  IF IsNum(x) /\ IsNum(y) THEN Num(x.n * y.d - y.n * x.d, x.d * y.d) ELSE NaN
Mul(a, b) == LET x == ToNumber(a) y == ToNumber(b) IN
  IF IsNum(x) /\ IsNum(y) THEN Num(x.n * y.n, x.d * y.d) ELSE NaN
Div(a, b) == LET x == ToNumber(a) y == ToNumber(b) IN
  IF IsNum(x) /\ IsNum(y) THEN Num(x.n * y.d, x.d * y.n) ELSE NaN

\* a < b, false when an operand is NaN
Lt(a, b) == LET x == ToNumber(a) y == ToNumber(b) IN
  IsNum(x) /\ IsNum(y) /\ x.n * y.d < y.n * x.d
Le(a, b) == LET x == ToNumber(a) y == ToNumber(b) IN
  IsNum(x) /\ IsNum(y) /\ x.n * y.d <= y.n * x.d

MathMax(a, b) == LET x == ToNumber(a) y == ToNumber(b) IN
  IF ~IsNum(x) \/ ~IsNum(y) THEN NaN ELSE IF Lt(x, y) THEN y ELSE x
MathMin(a, b) == LET x == ToNumber(a) y == ToNumber(b) IN
  IF ~IsNum(x) \/ ~IsNum(y) THEN NaN ELSE IF Lt(y, x) THEN y ELSE x
MathAbs(a) == LET x == ToNumber(a) IN
  IF IsNum(x) THEN Num(AbsInt(x.n), x.d) ELSE NaN
\* Math.round: floor(x + 1/2)
MathRound(a) == LET x == ToNumber(a) IN
  IF IsNum(x) THEN I((2 * x.n + x.d) \div (2 * x.d)) ELSE NaN

\* JavaScript truthiness
Truthy(v) == \/ v.k = "num" /\ v.n # 0
             \/ v.k \in {"auto", "px", "%", "vw", "vh"}

\* a === b
StrictEq(a, b) == a.k # "nan" /\ a = b

\* ------------------------------------------------------------------------
\* helpers.ts
\* ------------------------------------------------------------------------
\* clamp that applies the lower bound first
clamp_MinFirst(n, min, max) == MathMin(MathMax(n, min), max)

clamp(n, min, max) == MathMax(MathMin(n, max), min)

\* snap that rounds the value itself instead of its quotient by the step
snap_Undivided(n, size) == Mul(MathRound(n), size)

snap(n, size) == Mul(MathRound(Div(n, size)), size)

Directions == {"top", "right", "bottom", "left",
               "topRight", "bottomRight", "bottomLeft", "topLeft"}

enableDefault == [h \in Directions |-> TRUE]

\* the characters of a direction tag
Chars(s) ==
  CASE s = "top" -> <<"t", "o", "p">>
    [] s = "right" -> <<"r", "i", "g", "h", "t">>
    [] s = "bottom" -> <<"b", "o", "t", "t", "o", "m">>
    [] s = "left" -> <<"l", "e", "f", "t">>
    [] s = "topRight" -> <<"t", "o", "p", "R", "i", "g", "h", "t">>
    [] s = "bottomRight" -> <<"b", "o", "t", "t", "o", "m", "R", "i", "g", "h", "t">>
    [] s = "bottomLeft" -> <<"b", "o", "t", "t", "o", "m", "L", "e", "f", "t">>
    [] s = "topLeft" -> <<"t", "o", "p", "L", "e", "f", "t">>
    [] s = "undefined" -> <<"u", "n", "d", "e", "f", "i", "n", "e", "d">>

LowerChar(c) == CASE c = "R" -> "r" [] c = "L" -> "l" [] OTHER -> c

\* hasDirection that asks for the whole tag to be the edge
hasDirection_WholeTag(dir, target) == dir = target

\* new RegExp(dir, 'i').test(target): dir occurs in target, ignoring case
hasDirection(dir, target) ==
  LET p == Chars(dir)
      t == Chars(target)
  IN \E i \in 0..(Len(t) - Len(p)) :
       \A j \in 1..Len(p) : LowerChar(t[i + j]) = LowerChar(p[j])

\* isTouchEvent that takes an event with several touch points for a mouse event
isTouchEvent_SingleTouch(e) == Len(e.touches) = 1

\* touch points of an event; a mouse event has none
isTouchEvent(e) == Len(e.touches) > 0

\* index of the snap point closest to n (the first one on ties), 0-based
RECURSIVE ClosestGapIndex(_, _, _, _)
ClosestGapIndex(n, snapArray, index, prev) ==
  IF index >= Len(snapArray) THEN prev
  ELSE LET curr == snapArray[index + 1]
           best == snapArray[prev + 1]
       IN ClosestGapIndex(n, snapArray, index + 1,
            IF Lt(MathAbs(Sub(curr, n)), MathAbs(Sub(best, n))) THEN index ELSE prev)

\* a parameter declared with the default value 0
DefaultZero(v) == IF v.k = "undef" THEN I(0) ELSE v

findClosestSnap(n, snapArray, snapGap) ==
  IF Len(snapArray) = 0
  THEN \* snapArray[0] is undefined and the gap is NaN
       IF StrictEq(DefaultZero(snapGap), I(0)) THEN undefined ELSE n
  ELSE LET closestGapIndex == ClosestGapIndex(n, snapArray, 0, 0)
           gap == MathAbs(Sub(snapArray[closestGapIndex + 1], n))
       IN IF StrictEq(DefaultZero(snapGap), I(0)) \/ Lt(gap, DefaultZero(snapGap))
          THEN snapArray[closestGapIndex + 1] ELSE n

endsWith(str, searchStr) == str.k = searchStr

\* n.toString() of a number or string
getStringSize(n) ==
  IF n.k \in {"auto", "px", "%", "vh", "vw"} THEN n
  ELSE Str(n, "px")

\* getPixelSize that takes a percentage of the viewport width
getPixelSize_PercentOfViewport(size, parentSize, innerWidth, innerHeight) ==
  IF Truthy(size) /\ IsString(size)
  THEN IF endsWith(size, "px") THEN Str(size, "num")
       ELSE IF endsWith(size, "%") THEN Mul(innerWidth, Div(Str(size, "num"), I(100)))
       ELSE IF endsWith(size, "vw") THEN Mul(innerWidth, Div(Str(size, "num"), I(100)))
       ELSE IF endsWith(size, "vh") THEN Mul(innerHeight, Div(Str(size, "num"), I(100)))
       ELSE size
  ELSE size

getPixelSize(size, parentSize, innerWidth, innerHeight) ==
  IF Truthy(size) /\ IsString(size)
  THEN IF endsWith(size, "px") THEN Str(size, "num")
       ELSE IF endsWith(size, "%") THEN Mul(parentSize, Div(Str(size, "num"), I(100)))
       ELSE IF endsWith(size, "vw") THEN Mul(innerWidth, Div(Str(size, "num"), I(100)))
       ELSE IF endsWith(size, "vh") THEN Mul(innerHeight, Div(Str(size, "num"), I(100)))
       ELSE size
  ELSE size

\* unary plus applied to what getPixelSize returned
UnaryPlus(v) == IF v.k = "undef" THEN undefined ELSE ToNumber(v)

calculateNewMax(parentSize, innerWidth, innerHeight, maxWidth, maxHeight, minWidth, minHeight) ==
  [maxWidth |-> UnaryPlus(getPixelSize(maxWidth, parentSize.width, innerWidth, innerHeight)),
   maxHeight |-> UnaryPlus(getPixelSize(maxHeight, parentSize.height, innerWidth, innerHeight)),
   minWidth |-> UnaryPlus(getPixelSize(minWidth, parentSize.width, innerWidth, innerHeight)),
   minHeight |-> UnaryPlus(getPixelSize(minHeight, parentSize.height, innerWidth, innerHeight))]

\* ------------------------------------------------------------------------
\* Resizable component: state
\* ------------------------------------------------------------------------
VARIABLES
  props,          \* the props the code never reassigns, and the value of size the consumer supplied
  minWidth, minHeight, maxWidth, maxHeight,  \* props reassigned by onMouseMove
  size,           \* the object held by the size prop ([defined |-> FALSE] when not supplied)
  ownSizeState,   \* the object sizeState was initialised with
  sizeStateIsSize,\* TRUE once sizeState refers to the size prop's object (sizeState = size)
  isResizing, ratio, direction, original,
  parentLeft, parentTop,
  resizableLeft, resizableRight, resizableTop, resizableBottom,
  targetLeft, targetTop,
  flexDir, flexBasis, backdropCursor,
  listeners,      \* the listeners registered on the global object
  dom,            \* the document: inline style of the container, its position, parent, viewport
  microtasks,     \* callbacks queued with Promise.resolve().then
  lastEvent,      \* the last input event a handler of the component ran for
  emitted,        \* the notifications dispatched while handling lastEvent
  thrown,         \* the error raised while handling lastEvent, "none" if none
  lastMove,       \* the sizes the last pointer move of the current drag went through
  drags,          \* number of pointer-downs delivered so far
  fin, fout       \* argument and result of a helper applied on its own

rectVars == <<parentLeft, parentTop, resizableLeft, resizableRight, resizableTop,
              resizableBottom, targetLeft, targetTop>>
constraintVars == <<minWidth, minHeight, maxWidth, maxHeight>>
sizeVars == <<size, ownSizeState, sizeStateIsSize>>
dragVars == <<isResizing, ratio, direction, original, flexDir, flexBasis, backdropCursor>>
funVars == <<fin, fout>>
vars == <<props, constraintVars, sizeVars, dragVars, rectVars, listeners, dom, microtasks,
          lastEvent, emitted, thrown, lastMove, drags, funVars>>

lockAspectRatio == props.lockAspectRatio
lockAspectRatioExtraWidth == props.lockAspectRatioExtraWidth
lockAspectRatioExtraHeight == props.lockAspectRatioExtraHeight
defaultSize == props.defaultSize
\* scale left at 1 whatever the consumer passes
scale_Ignored == I(1)
scale == props.scale
resizeRatio == props.resizeRatio
bounds == props.bounds
boundsByDirection == props.boundsByDirection
grid == props.grid
propsSnap == props.snap
snapGap == props.snapGap
\* the enable prop as supplied: a flag for some of the directions
suppliedEnable == props.enable

\* enable that holds only what the consumer supplied
enable_SuppliedOnly ==
  [h \in Directions |-> h \in DOMAIN suppliedEnable /\ suppliedEnable[h]]

\* enable = { ...enableDefault, ...enable }: every direction is true unless supplied
enable ==
  [h \in Directions |->
     IF h \in DOMAIN suppliedEnable THEN suppliedEnable[h] ELSE enableDefault[h]]

\* let sizeState: the object the variable currently refers to
sizeState == IF sizeStateIsSize THEN size ELSE ownSizeState

\* let propsSize = size || defaultSize || DEFAULT_SIZE (a reference, taken at construction)
propsSize == IF props.suppliedSize.defined THEN size ELSE defaultSize

NoSize == [defined |-> FALSE, width |-> undefined, height |-> undefined]
SizeOf(w, h) == [defined |-> TRUE, width |-> w, height |-> h]

\* ------------------------------------------------------------------------
\* The document
\* ------------------------------------------------------------------------
\* element.style.<length property> = v: an invalid declaration is ignored
StyleSet(old, v) ==
  IF v.k \in {"auto", "px", "%", "vw", "vh"} THEN v
  ELSE IF v.k = "num" /\ v.n = 0 THEN Str(v, "px")
  ELSE old

\* used value of a length of the container
UsedLength(v, parentLength, fallback) ==
  CASE v.k = "px" -> Str(v, "num")
    [] v.k = "%" -> Div(Mul(parentLength, Str(v, "num")), I(100))
    [] v.k = "vw" -> Div(Mul(dom.innerWidth, Str(v, "num")), I(100))
    [] v.k = "vh" -> Div(Mul(dom.innerHeight, Str(v, "num")), I(100))
    [] OTHER -> fallback

\* containerEl.getBoundingClientRect()
LayoutWidth(d) ==
  LET w == UsedLength(d.style.width, d.parentSize.width, d.content.width)
      m == UsedLength(d.style.maxWidth, d.parentSize.width, undefined)
  IN IF IsNum(m) /\ Lt(m, w) THEN m ELSE w
LayoutHeight(d) ==
  LET h == UsedLength(d.style.height, d.parentSize.height, d.content.height)
      m == UsedLength(d.style.maxHeight, d.parentSize.height, undefined)
  IN IF IsNum(m) /\ Lt(m, h) THEN m ELSE h
\* getBoundingClientRect that returns the position the element had when it was mounted
getBoundingClientRect_Unmoved(d) ==
  [left |-> I(20), top |-> I(10),
   right |-> Add(I(20), LayoutWidth(d)), bottom |-> Add(I(10), LayoutHeight(d)),
   width |-> LayoutWidth(d), height |-> LayoutHeight(d)]

getBoundingClientRect(d) ==
  [left |-> d.left, top |-> d.top,
   right |-> Add(d.left, LayoutWidth(d)), bottom |-> Add(d.top, LayoutHeight(d)),
   width |-> LayoutWidth(d), height |-> LayoutHeight(d)]

\* helpers.ts getSize(node)
getSize(d) ==
  LET r == getBoundingClientRect(d)
      originalWidth == r.width
      originalHeight == r.height
  IN [width |-> IF d.style.width # auto THEN r.width ELSE originalWidth,
      height |-> IF d.style.height # auto THEN r.width ELSE originalHeight]

\* helpers.ts getParentSize(node): the box of the probe appended to the parent
getParentSize(d) == d.parentSize

\* ------------------------------------------------------------------------
\* Resizable component: the size pipeline
\* ------------------------------------------------------------------------
\* lockAspectRatio is false, true or a number; only false and 0 are falsy
LockOn == lockAspectRatio.k = "true" \/ Truthy(lockAspectRatio)

\* x || 0 that drops x
OrZero_Dropped(x) == I(0)

\* x || 0
OrZero(x) == IF Truthy(x) THEN x ELSE I(0)

\* calculateNewSizeFromDirection that handles bottom and top before right and left
calculateNewSizeFromDirection_WidthLast(e) ==
  LET extraHeight == OrZero(lockAspectRatioExtraHeight)
      extraWidth == OrZero(lockAspectRatioExtraWidth)
      dx == Div(Mul(Sub(e.clientX, original.x), resizeRatio), scale)
      dy == Div(Mul(Sub(e.clientY, original.y), resizeRatio), scale)
      h == IF hasDirection("top", direction) THEN Sub(original.height, dy)
           ELSE IF hasDirection("bottom", direction) THEN Add(original.height, dy)
           ELSE original.height
      w == IF hasDirection("left", direction) THEN Sub(original.width, dx)
           ELSE IF hasDirection("right", direction) THEN Add(original.width, dx)
           ELSE original.width
      horizontal == hasDirection("left", direction) \/ hasDirection("right", direction)
      vertical == hasDirection("top", direction) \/ hasDirection("bottom", direction)
  IN IF ~LockOn THEN [newWidth |-> w, newHeight |-> h]
     ELSE IF horizontal
     THEN [newWidth |-> w, newHeight |-> Add(Div(Sub(w, extraWidth), ratio), extraHeight)]
     ELSE IF vertical
     THEN [newWidth |-> Add(Mul(Sub(h, extraHeight), ratio), extraWidth), newHeight |-> h]
     ELSE [newWidth |-> w, newHeight |-> h]

calculateNewSizeFromDirection(e) ==
  LET extraHeight == OrZero(lockAspectRatioExtraHeight)
      extraWidth == OrZero(lockAspectRatioExtraWidth)
      dx == Div(Mul(Sub(e.clientX, original.x), resizeRatio), scale)
      dy == Div(Mul(Sub(e.clientY, original.y), resizeRatio), scale)
      s0 == [newWidth |-> original.width, newHeight |-> original.height]
      s1 == IF hasDirection("right", direction)
            THEN LET w == Add(original.width, dx)
                 IN [newWidth |-> w,
                     newHeight |-> IF LockOn THEN Add(Div(Sub(w, extraWidth), ratio), extraHeight)
                                   ELSE s0.newHeight]
            ELSE s0
      s2 == IF hasDirection("left", direction)
            THEN LET w == Sub(original.width, dx)
                 IN [newWidth |-> w,
                     newHeight |-> IF LockOn THEN Add(Div(Sub(w, extraWidth), ratio), extraHeight)
                                   ELSE s1.newHeight]
            ELSE s1
      s3 == IF hasDirection("bottom", direction)
            THEN LET h == Add(original.height, dy)
                 IN [newWidth |-> IF LockOn THEN Add(Mul(Sub(h, extraHeight), ratio), extraWidth)
                                  ELSE s2.newWidth,
                     newHeight |-> h]
            ELSE s2
      s4 == IF hasDirection("top", direction)
            THEN LET h == Sub(original.height, dy)
                 IN [newWidth |-> IF LockOn THEN Add(Mul(Sub(h, extraHeight), ratio), extraWidth)
                                  ELSE s3.newWidth,
                     newHeight |-> h]
            ELSE s3
  IN s4

\* BoundaryOf that measures from the element's leading edge whatever the direction
BoundaryOf_LeadingEdge(d) ==
  IF bounds = "parent"
  THEN [throw |-> FALSE,
        boundWidth |-> Add(d.parent.offsetWidth, Sub(parentLeft, resizableLeft)),
        boundHeight |-> Add(d.parent.offsetHeight, Sub(parentTop, resizableTop))]
  ELSE IF bounds = "window"
  THEN [throw |-> FALSE,
        boundWidth |-> Sub(d.innerWidth, resizableLeft),
        boundHeight |-> Sub(d.innerHeight, resizableTop)]
  ELSE IF bounds # "undefined"
  THEN IF ~d.target.exists
       THEN [throw |-> TRUE, boundWidth |-> undefined, boundHeight |-> undefined]
       ELSE [throw |-> FALSE,
             boundWidth |-> Add(d.target.offsetWidth, Sub(targetLeft, resizableLeft)),
             boundHeight |-> Add(d.target.offsetHeight, Sub(targetTop, resizableTop))]
  ELSE [throw |-> FALSE, boundWidth |-> undefined, boundHeight |-> undefined]

\* the boundary width and height of calculateNewMaxFromBoundary, before they are
\* combined with the caller's max; "throw" when the selector matches nothing
BoundaryOf(d) ==
  LET widthByDirection == boundsByDirection /\ hasDirection("left", direction)
      heightByDirection == boundsByDirection /\ hasDirection("top", direction)
  IN IF bounds = "parent"
     THEN [throw |-> FALSE,
           boundWidth |-> IF widthByDirection THEN Sub(resizableRight, parentLeft)
                          ELSE Add(d.parent.offsetWidth, Sub(parentLeft, resizableLeft)),
           boundHeight |-> IF heightByDirection THEN Sub(resizableBottom, parentTop)
                           ELSE Add(d.parent.offsetHeight, Sub(parentTop, resizableTop))]
     ELSE IF bounds = "window"
     THEN [throw |-> FALSE,
           boundWidth |-> IF widthByDirection THEN resizableRight
                          ELSE Sub(d.innerWidth, resizableLeft),
           boundHeight |-> IF heightByDirection THEN resizableBottom
                           ELSE Sub(d.innerHeight, resizableTop)]
     ELSE IF bounds # "undefined"
     THEN IF ~d.target.exists
          THEN [throw |-> TRUE, boundWidth |-> undefined, boundHeight |-> undefined]
          ELSE [throw |-> FALSE,
                boundWidth |-> IF widthByDirection THEN Sub(resizableRight, targetLeft)
                               ELSE Add(d.target.offsetWidth, Sub(targetLeft, resizableLeft)),
                boundHeight |-> IF heightByDirection THEN Sub(resizableBottom, targetTop)
                                ELSE Add(d.target.offsetHeight, Sub(targetTop, resizableTop))]
     ELSE [throw |-> FALSE, boundWidth |-> undefined, boundHeight |-> undefined]

\* Number.isFinite
NumberIsFinite(v) == v.k = "num"

\* max && max < bound ? max : bound, applied when bound && Number.isFinite(bound)
NewMax(max, bound) ==
  IF Truthy(bound) /\ NumberIsFinite(bound)
  THEN IF Truthy(max) /\ Lt(max, bound) THEN max ELSE bound
  ELSE max

calculateNewMaxFromBoundary(d, maxW, maxH) ==
  LET b == BoundaryOf(d)
  IN [throw |-> b.throw,
      maxWidth |-> NewMax(maxW, b.boundWidth),
      maxHeight |-> NewMax(maxH, b.boundHeight)]

\* ClampBounds that keeps the bounds of each axis on their own under aspect lock
ClampBounds_PerAxis(newWidth, newHeight, max, min) ==
  [minWidth |-> IF min.width.k = "undef" THEN I(10) ELSE min.width,
   maxWidth |-> IF max.width.k = "undef" \/ Lt(max.width, I(0)) THEN newWidth ELSE max.width,
   minHeight |-> IF min.height.k = "undef" THEN I(10) ELSE min.height,
   maxHeight |-> IF max.height.k = "undef" \/ Lt(max.height, I(0))
                 THEN newHeight ELSE max.height]

\* ClampBounds that takes a negative max for a max like any other
ClampBounds_NegativeMaxKept(newWidth, newHeight, max, min) ==
  [minWidth |-> IF min.width.k = "undef" THEN I(10) ELSE min.width,
   maxWidth |-> IF max.width.k = "undef" THEN newWidth ELSE max.width,
   minHeight |-> IF min.height.k = "undef" THEN I(10) ELSE min.height,
   maxHeight |-> IF max.height.k = "undef" THEN newHeight ELSE max.height]

\* the bounds calculateNewSizeFromAspectRatio clamps each axis to
ClampBounds(newWidth, newHeight, max, min) ==
  LET computedMinWidth == IF min.width.k = "undef" THEN I(10) ELSE min.width
      computedMaxWidth == IF max.width.k = "undef" \/ Lt(max.width, I(0))
                          THEN newWidth ELSE max.width
      computedMinHeight == IF min.height.k = "undef" THEN I(10) ELSE min.height
      computedMaxHeight == IF max.height.k = "undef" \/ Lt(max.height, I(0))
                           THEN newHeight ELSE max.height
      extraHeight == OrZero(lockAspectRatioExtraHeight)
      extraWidth == OrZero(lockAspectRatioExtraWidth)
  IN IF LockOn
     THEN LET extraMinWidth == Add(Mul(Sub(computedMinHeight, extraHeight), ratio), extraWidth)
              extraMaxWidth == Add(Mul(Sub(computedMaxHeight, extraHeight), ratio), extraWidth)
              extraMinHeight == Add(Div(Sub(computedMinWidth, extraWidth), ratio), extraHeight)
              extraMaxHeight == Add(Div(Sub(computedMaxWidth, extraWidth), ratio), extraHeight)
          IN [minWidth |-> MathMax(computedMinWidth, extraMinWidth),
              maxWidth |-> MathMin(computedMaxWidth, extraMaxWidth),
              minHeight |-> MathMax(computedMinHeight, extraMinHeight),
              maxHeight |-> MathMin(computedMaxHeight, extraMaxHeight)]
     ELSE [minWidth |-> computedMinWidth, maxWidth |-> computedMaxWidth,
           minHeight |-> computedMinHeight, maxHeight |-> computedMaxHeight]

calculateNewSizeFromAspectRatio(newWidth, newHeight, max, min) ==
  LET b == ClampBounds(newWidth, newHeight, max, min)
  IN [newWidth |-> clamp(newWidth, b.minWidth, b.maxWidth),
      newHeight |-> clamp(newHeight, b.minHeight, b.maxHeight)]

\* GridSnap that keeps the value when the grid value is exactly snapGap away
GridSnap_StrictGap(n, step) ==
  LET newGrid == snap(n, step)
      gap == OrZero(snapGap)
  IN IF StrictEq(gap, I(0)) \/ Lt(MathAbs(Sub(newGrid, n)), gap) THEN newGrid ELSE n

\* the grid step of onMouseMove on one axis
GridSnap(n, step) ==
  LET newGrid == snap(n, step)
      gap == OrZero(snapGap)
  IN IF StrictEq(gap, I(0)) \/ Le(MathAbs(Sub(newGrid, n)), gap) THEN newGrid ELSE n

\* the snap step of onMouseMove on one axis (points is <<>> when propsSnap has none)
PointSnap(n, points) ==
  IF points.defined THEN findClosestSnap(n, points.list, snapGap) ELSE n

\* v.toString(): a number becomes its decimal string
NumberToString(v) == IF v.k = "num" THEN Str(v, "numstr") ELSE v

\* `${v}unit`
Template(v, unit) == IF IsNum(v) THEN Str(v, unit) ELSE NaN

\* ToUnit that takes a vh of the viewport width
ToUnit_VhOfWidth(n, tracked, parentLength, d) ==
  IF Truthy(tracked) /\ IsString(tracked)
  THEN IF endsWith(tracked, "%") THEN Template(Mul(Div(n, parentLength), I(100)), "%")
       ELSE IF endsWith(tracked, "vw") THEN Template(Mul(Div(n, d.innerWidth), I(100)), "vw")
       ELSE IF endsWith(tracked, "vh") THEN Template(Mul(Div(n, d.innerWidth), I(100)), "vh")
       ELSE n
  ELSE n

\* re-expression of a resolved size in the unit of the tracked size
ToUnit(n, tracked, parentLength, d) ==
  IF Truthy(tracked) /\ IsString(tracked)
  THEN IF endsWith(tracked, "%") THEN Template(Mul(Div(n, parentLength), I(100)), "%")
       ELSE IF endsWith(tracked, "vw") THEN Template(Mul(Div(n, d.innerWidth), I(100)), "vw")
       ELSE IF endsWith(tracked, "vh") THEN Template(Mul(Div(n, d.innerHeight), I(100)), "vh")
       ELSE n
  ELSE n

createSizeForCssProperty(newSize, kind) ==
  LET propSize == IF propsSize.defined THEN propsSize[kind] ELSE undefined
  IN IF sizeState[kind] = auto /\ StrictEq(original[kind], newSize)
        /\ (propSize.k = "undef" \/ propSize = auto)
     THEN auto ELSE newSize

\* sizeStyle(), for the tracked size ss, the size prop sz and the dragging flag
SizeStyleKey(key, ss, ps, d) ==
  IF ss[key].k = "undef" \/ ss[key] = auto THEN auto
  ELSE IF ps.defined /\ Truthy(ps[key]) /\ endsWith(ps[key], "%")
  THEN IF endsWith(ss[key], "%") THEN ss[key]
       ELSE Template(Mul(Div(IF ss[key].k \in {"num", "px"} THEN Str(ss[key], "num") ELSE NaN,
                             getParentSize(d)[key]), I(100)), "%")
  ELSE getStringSize(ss[key])

\* sizeStyle that takes the external size also while dragging
sizeStyle_ExternalWhileDragging(ss, sz, ps, resizing, d) ==
  [width |-> IF sz.defined /\ sz.width.k # "undef"
             THEN getStringSize(sz.width) ELSE SizeStyleKey("width", ss, ps, d),
   height |-> IF sz.defined /\ sz.height.k # "undef"
              THEN getStringSize(sz.height) ELSE SizeStyleKey("height", ss, ps, d)]

sizeStyle(ss, sz, ps, resizing, d) ==
  [width |-> IF sz.defined /\ sz.width.k # "undef" /\ ~resizing
             THEN getStringSize(sz.width) ELSE SizeStyleKey("width", ss, ps, d),
   height |-> IF sz.defined /\ sz.height.k # "undef" /\ ~resizing
              THEN getStringSize(sz.height) ELSE SizeStyleKey("height", ss, ps, d)]

\* ------------------------------------------------------------------------
\* Resizable component: listeners and notifications
\* ------------------------------------------------------------------------
Listener(type, handler, capture) == [type |-> type, handler |-> handler, capture |-> capture]

\* addEventListener ignores a listener that is already registered
bindEvents(ls) ==
  ls \cup {Listener("mouseup", "onMouseUp", FALSE),
           Listener("mousemove", "onMouseMove", FALSE),
           Listener("mouseleave", "onMouseUp", FALSE),
           Listener("touchmove", "onMouseMove", TRUE),
           Listener("touchend", "onMouseUp", FALSE)}

\* unbindEvents that leaves out the capture flag of the touchmove listener
unbindEvents_NoCapture(ls) ==
  ls \ {Listener("mouseup", "onMouseUp", FALSE),
        Listener("mousemove", "onMouseMove", FALSE),
        Listener("mouseleave", "onMouseUp", FALSE),
        Listener("touchmove", "onMouseMove", FALSE),
        Listener("touchend", "onMouseUp", FALSE)}

\* removeEventListener removes the listener with the same type, callback and capture flag
unbindEvents(ls) ==
  ls \ {Listener("mouseup", "onMouseUp", FALSE),
        Listener("mousemove", "onMouseMove", FALSE),
        Listener("mouseleave", "onMouseUp", FALSE),
        Listener("touchmove", "onMouseMove", TRUE),
        Listener("touchend", "onMouseUp", FALSE)}

NoDelta == [width |-> undefined, height |-> undefined]
Notification(type, dir, delta) == [type |-> type, direction |-> dir, delta |-> delta]

cursorForDirection(dir) ==
  CASE dir \in {"top", "bottom"} -> "row-resize"
    [] dir \in {"left", "right"} -> "col-resize"
    [] dir = "topRight" -> "ne-resize"
    [] dir = "bottomRight" -> "se-resize"
    [] dir = "bottomLeft" -> "sw-resize"
    [] dir = "topLeft" -> "se-resize"

\* document.querySelector(bounds)
querySelector(d, selector) == IF selector = "#target" THEN d.target.exists ELSE FALSE

Point(x, y) == [clientX |-> I(x), clientY |-> I(y)]
MouseEvent(type, button, p) ==
  [type |-> type, button |-> button, clientX |-> p.clientX, clientY |-> p.clientY,
   touches |-> <<>>]
TouchEvent(type, touches) ==
  [type |-> type, button |-> 0, clientX |-> undefined, clientY |-> undefined,
   touches |-> touches]
NoMove == [handled |-> FALSE,
           candidate |-> [newWidth |-> undefined, newHeight |-> undefined],
           max |-> [width |-> undefined, height |-> undefined],
           min |-> [width |-> undefined, height |-> undefined],
           clamped |-> [newWidth |-> undefined, newHeight |-> undefined],
           resolved |-> [newWidth |-> undefined, newHeight |-> undefined],
           written |-> NoSize]

\* ------------------------------------------------------------------------
\* Bounds of the model
\* ------------------------------------------------------------------------
\* pointer-downs delivered in one behaviour
MaxDrags == 2

\* ------------------------------------------------------------------------
\* Resizable component: handlers
\* ------------------------------------------------------------------------
\* the tracked size after the assignment sizeState = obj or sizeState.<key> = ...
WriteSizeState(obj) ==
  IF sizeStateIsSize THEN size' = obj /\ UNCHANGED ownSizeState
  ELSE ownSizeState' = obj /\ UNCHANGED size

\* Resizer.onResizeStart: the detail of the resize-start event of a handle
ResizerDetail(handle, e) ==
  LET p == IF isTouchEvent(e) THEN e.touches[1] ELSE e
  IN [direction |-> handle, clientX |-> p.clientX, clientY |-> p.clientY,
      cursor |-> cursorForDirection(handle)]

\* setBoundingClientRect: "throw" when the selector matches nothing
setBoundingClientRect ==
  LET r == getBoundingClientRect(dom)
      selector == bounds # "parent" /\ bounds # "undefined"
      found == querySelector(dom, bounds)
  IN IF selector /\ ~found
     THEN /\ thrown' = "bounds-not-found"
          /\ IF bounds = "parent"
             THEN parentLeft' = dom.parent.left /\ parentTop' = dom.parent.top
             ELSE UNCHANGED <<parentLeft, parentTop>>
          /\ UNCHANGED <<resizableLeft, resizableRight, resizableTop, resizableBottom,
                         targetLeft, targetTop>>
     ELSE /\ thrown' = "none"
          /\ IF bounds = "parent"
             THEN parentLeft' = dom.parent.left /\ parentTop' = dom.parent.top
             ELSE UNCHANGED <<parentLeft, parentTop>>
          /\ IF selector
             THEN targetLeft' = dom.target.left /\ targetTop' = dom.target.top
             ELSE UNCHANGED <<targetLeft, targetTop>>
          /\ resizableLeft' = r.left
          /\ resizableRight' = r.right
          /\ resizableTop' = r.top
          /\ resizableBottom' = r.bottom

\* RatioAtStart that measures the ratio also when a number is configured
RatioAtStart_AlwaysMeasured(localSize) == Div(localSize.width, localSize.height)

\* the aspect ratio onResizeStart sets, for the size it measured
RatioAtStart(localSize) ==
  IF lockAspectRatio.k = "num" THEN lockAspectRatio
  ELSE Div(localSize.width, localSize.height)

\* Resizable.onResizeStart, called with the detail the handle dispatched
onResizeStart(detail) ==
  LET copied == IF size.defined
                THEN [sizeState EXCEPT
                        !.height = IF size.height.k # "undef" /\ ~StrictEq(size.height, @)
                                   THEN size.height ELSE @,
                        !.width = IF size.width.k # "undef" /\ ~StrictEq(size.width, @)
                                  THEN size.width ELSE @]
                ELSE sizeState
      localSize == getSize(dom)
      flex == dom.flexBasis # auto
      localFlexBasis == IF flex THEN dom.flexBasis ELSE undefined
  IN /\ emitted' = <<Notification("resize-start", direction, NoDelta)>>
     /\ WriteSizeState(copied)
     /\ UNCHANGED sizeStateIsSize
     /\ ratio' = RatioAtStart(localSize)
     /\ flexDir' = IF flex
                   THEN (IF dom.parentFlexDirection \in {"row", "row-reverse"}
                         THEN "row" ELSE "column")
                   ELSE flexDir
     /\ setBoundingClientRect
     /\ IF thrown' # "none"
        THEN UNCHANGED <<listeners, original, isResizing, backdropCursor, direction,
                         flexBasis, microtasks, dom, lastMove>>
        ELSE /\ listeners' = bindEvents(listeners)
             /\ original' = [x |-> detail.clientX, y |-> detail.clientY,
                             width |-> localSize.width, height |-> localSize.height]
             /\ isResizing' = TRUE
             /\ backdropCursor' = detail.cursor
             /\ direction' = detail.direction
             /\ flexBasis' = localFlexBasis
             /\ microtasks' = Append(microtasks, [op |-> "ensureMinMaxDimensions",
                                                  width |-> undefined, height |-> undefined])
             /\ lastMove' = NoMove
             /\ UNCHANGED dom
     /\ UNCHANGED <<props, constraintVars>>

\* a pointer-down on the handle of a direction: mousedown or touchstart on the Resizer
PointerDown(handle, e) ==
  /\ microtasks = <<>>
  /\ ~isResizing       \* the backdrop covers the handles while resizing
  /\ enable[handle]    \* only enabled handles are rendered
  /\ drags < MaxDrags
  /\ drags' = drags + 1
  /\ UNCHANGED funVars
  /\ lastEvent' = [type |-> e.type, button |-> e.button, handle |-> handle,
                   e |-> e, wasResizing |-> isResizing]
  /\ onResizeStart(ResizerDetail(handle, e))

\* SnapMove that snaps to the points first and to the grid afterwards
SnapMove_PointFirst(candidate, throw, max, min, clamped) ==
  LET pointed == [newWidth |-> PointSnap(clamped.newWidth, propsSnap.x),
                  newHeight |-> PointSnap(clamped.newHeight, propsSnap.y)]
      resolved == IF grid.defined
                  THEN [newWidth |-> GridSnap(pointed.newWidth, grid.x),
                        newHeight |-> GridSnap(pointed.newHeight, grid.y)]
                  ELSE pointed
  IN [handled |-> TRUE, throw |-> throw, candidate |-> candidate, max |-> max,
      min |-> min, clamped |-> clamped, resolved |-> resolved]

\* the grid and snap steps of onMouseMove applied to the clamped size
SnapMove(candidate, throw, max, min, clamped) ==
  LET gridded == IF grid.defined
                 THEN [newWidth |-> GridSnap(clamped.newWidth, grid.x),
                       newHeight |-> GridSnap(clamped.newHeight, grid.y)]
                 ELSE clamped
      resolved == [newWidth |-> PointSnap(gridded.newWidth, propsSnap.x),
                   newHeight |-> PointSnap(gridded.newHeight, propsSnap.y)]
  IN [handled |-> TRUE, throw |-> throw, candidate |-> candidate, max |-> max,
      min |-> min, clamped |-> clamped, resolved |-> resolved]

\* the clamp step of onMouseMove applied to the candidate, under the boundary's max
ClampMove(candidate, boundaryMax, c) ==
  LET max == [width |-> boundaryMax.maxWidth, height |-> boundaryMax.maxHeight]
      min == [width |-> c.minWidth, height |-> c.minHeight]
  IN SnapMove(candidate, boundaryMax.throw, max, min,
              calculateNewSizeFromAspectRatio(candidate.newWidth, candidate.newHeight,
                                              max, min))

\* the sizes onMouseMove computes for the pointer position p, given the constraints
\* resolved by calculateNewMax
MoveSizes(p, c) ==
  ClampMove(calculateNewSizeFromDirection(p),
            calculateNewMaxFromBoundary(dom, c.maxWidth, c.maxHeight), c)

\* MoveDelta measured against the size the element has now instead of the Drag Origin
MoveDelta_FromCurrentSize(resolved) ==
  [width |-> Sub(resolved.newWidth, getSize(dom).width),
   height |-> Sub(resolved.newHeight, getSize(dom).height)]

\* the delta of a resize notification for the resolved size
MoveDelta(resolved) ==
  [width |-> Sub(resolved.newWidth, original.width),
   height |-> Sub(resolved.newHeight, original.height)]

\* the delta of the resize-stop notification
StopDelta(localSize) ==
  [width |-> Sub(localSize.width, original.width),
   height |-> Sub(localSize.height, original.height)]

onMouseMove(e) ==
  IF ~isResizing
  THEN /\ emitted' = <<>>
       /\ thrown' = "none"
       /\ UNCHANGED <<props, constraintVars, sizeVars, dragVars, rectVars, listeners, dom,
                      microtasks, lastMove>>
  ELSE
    \* each value of the handler is computed once and named
    \E dimensions \in {IF isTouchEvent(e) THEN e.touches[1] ELSE e},
       parentSize \in {getParentSize(dom)} :
    \E max \in {calculateNewMax(parentSize, dom.innerWidth, dom.innerHeight,
                                maxWidth, maxHeight, minWidth, minHeight)} :
    \E m \in {MoveSizes(dimensions, max)} :
    \E delta \in {MoveDelta(m.resolved)},
       newWidth \in {ToUnit(m.resolved.newWidth, sizeState.width, parentSize.width, dom)},
       newHeight \in {ToUnit(m.resolved.newHeight, sizeState.height, parentSize.height, dom)} :
    \E newState \in {[sizeState EXCEPT
                        !.width = createSizeForCssProperty(newWidth, "width"),
                        !.height = createSizeForCssProperty(newHeight, "height")]} :
    \E newProps \in {IF props.suppliedSize.defined /\ sizeStateIsSize
                      THEN newState ELSE propsSize},
       newSizeProp \in {IF sizeStateIsSize THEN newState ELSE size} :
    \E localStyleSize \in {sizeStyle(newState, newSizeProp, newProps, isResizing, dom)} :
       /\ maxWidth' = max.maxWidth
       /\ maxHeight' = max.maxHeight
       /\ minWidth' = max.minWidth
       /\ minHeight' = max.minHeight
       /\ IF m.throw
          THEN /\ thrown' = "bounds-not-found"
               /\ emitted' = <<>>
               /\ UNCHANGED <<sizeVars, flexBasis, microtasks, lastMove>>
          ELSE /\ thrown' = "none"
               /\ WriteSizeState(newState)
               /\ UNCHANGED sizeStateIsSize
               /\ flexBasis' = IF flexDir = "row" THEN NumberToString(newState.width)
                               ELSE IF flexDir = "column" THEN NumberToString(newState.height)
                               ELSE flexBasis
               /\ emitted' = <<Notification("resize", direction, delta)>>
               /\ microtasks' = Append(microtasks, [op |-> "style",
                                                    width |-> localStyleSize.width,
                                                    height |-> localStyleSize.height])
               /\ lastMove' = [handled |-> TRUE, candidate |-> m.candidate, max |-> m.max,
                               min |-> m.min, clamped |-> m.clamped,
                               resolved |-> m.resolved, written |-> newState]
       /\ UNCHANGED <<props, isResizing, ratio, direction, original, flexDir, backdropCursor,
                      rectVars, listeners, dom>>

\* onMouseUp that leaves the dragging flag as it is
onMouseUp_KeepsDragging ==
  IF ~isResizing
  THEN /\ emitted' = <<>>
       /\ UNCHANGED <<props, constraintVars, sizeVars, dragVars, rectVars, listeners, dom,
                      microtasks, lastMove>>
  ELSE /\ emitted' = <<Notification("resize-stop", direction, StopDelta(getSize(dom)))>>
       /\ sizeStateIsSize' = (IF size.defined THEN TRUE ELSE sizeStateIsSize)
       /\ listeners' = unbindEvents(listeners)
       /\ backdropCursor' = "auto"
       /\ UNCHANGED <<props, constraintVars, size, ownSizeState, isResizing, ratio, direction,
                      original, flexDir, flexBasis, rectVars, dom, microtasks, lastMove>>

\* onMouseUp without the guard on isResizing
onMouseUp_Unguarded ==
  /\ isResizing' = FALSE
  /\ emitted' = <<Notification("resize-stop", direction, StopDelta(getSize(dom)))>>
  /\ sizeStateIsSize' = (IF size.defined THEN TRUE ELSE sizeStateIsSize)
  /\ listeners' = unbindEvents(listeners)
  /\ backdropCursor' = "auto"
  /\ UNCHANGED <<props, constraintVars, size, ownSizeState, ratio, direction, original,
                 flexDir, flexBasis, rectVars, dom, microtasks, lastMove>>

onMouseUp ==
  IF ~isResizing
  THEN /\ emitted' = <<>>
       /\ UNCHANGED <<props, constraintVars, sizeVars, dragVars, rectVars, listeners, dom,
                      microtasks, lastMove>>
  ELSE
    LET localSize == getSize(dom)
        delta == StopDelta(localSize)
    IN /\ isResizing' = FALSE
       /\ emitted' = <<Notification("resize-stop", direction, delta)>>
       /\ sizeStateIsSize' = (IF size.defined THEN TRUE ELSE sizeStateIsSize)
       /\ listeners' = unbindEvents(listeners)
       /\ backdropCursor' = "auto"
       /\ UNCHANGED <<props, constraintVars, size, ownSizeState, ratio, direction, original,
                      flexDir, flexBasis, rectVars, dom, microtasks, lastMove>>

\* the handler the global object calls for an event of a type, "none" if none is bound
HandlerFor(type) ==
  IF \E l \in listeners : l.type = type
  THEN (CHOOSE l \in listeners : l.type = type).handler
  ELSE "none"

\* no listener of the component is bound for the event: no code of the component runs
Undelivered == UNCHANGED vars

\* a mousemove or touchmove reaches the global object
PointerMove(e) ==
  /\ microtasks = <<>>
  /\ IF HandlerFor(e.type) = "onMouseMove"
     THEN /\ lastEvent' = [type |-> e.type, button |-> e.button, handle |-> "none",
                           e |-> e, wasResizing |-> isResizing]
          /\ onMouseMove(e)
          /\ UNCHANGED <<drags, funVars>>
     ELSE Undelivered

\* a mouseup, mouseleave or touchend reaches the global object
PointerUp(e) ==
  /\ microtasks = <<>>
  /\ IF HandlerFor(e.type) = "onMouseUp"
     THEN /\ lastEvent' = [type |-> e.type, button |-> e.button, handle |-> "none",
                           e |-> e, wasResizing |-> isResizing]
          /\ onMouseUp
          /\ thrown' = "none"
          /\ UNCHANGED <<drags, funVars>>
     ELSE Undelivered

ensureMinMaxDimensions(d) ==
  [d EXCEPT !.style.maxWidth = IF maxWidth.k # "undef" THEN StyleSet(@, maxWidth) ELSE @,
            !.style.maxHeight = IF maxHeight.k # "undef" THEN StyleSet(@, maxHeight) ELSE @]

\* the microtask checkpoint after a handler: the oldest queued callback runs
RunMicrotask ==
  /\ microtasks # <<>>
  /\ LET t == Head(microtasks)
     IN dom' = IF t.op = "ensureMinMaxDimensions" THEN ensureMinMaxDimensions(dom)
               ELSE [dom EXCEPT !.style.width = StyleSet(@, t.width),
                                !.style.height = StyleSet(@, t.height)]
  /\ microtasks' = Tail(microtasks)
  /\ UNCHANGED <<props, constraintVars, sizeVars, dragVars, rectVars, listeners,
                 lastEvent, emitted, thrown, lastMove, drags, funVars>>

\* ------------------------------------------------------------------------
\* Configurations and initial state
\* ------------------------------------------------------------------------
true == [k |-> "true", n |-> 0, d |-> 1]
false == [k |-> "false", n |-> 0, d |-> 1]

NoGrid == [defined |-> FALSE, x |-> I(1), y |-> I(1)]
NoPoints == [defined |-> FALSE, list |-> <<>>]
Points(list) == [defined |-> TRUE, list |-> list]
DEFAULT_SIZE == SizeOf(auto, auto)

\* the props of <Resizable> with their default values
DefaultProps ==
  [enable |-> enableDefault,
   minWidth |-> undefined, minHeight |-> undefined,
   maxWidth |-> undefined, maxHeight |-> undefined,
   lockAspectRatio |-> false,
   lockAspectRatioExtraWidth |-> I(0), lockAspectRatioExtraHeight |-> I(0),
   defaultSize |-> DEFAULT_SIZE,
   scale |-> I(1), resizeRatio |-> I(1),
   bounds |-> "undefined", boundsByDirection |-> TRUE,
   suppliedSize |-> NoSize,
   grid |-> NoGrid,
   snap |-> [x |-> NoPoints, y |-> NoPoints],
   snapGap |-> I(0)]

\* the page the component is mounted in
Page ==
  [style |-> [width |-> emptyString, height |-> emptyString,
              maxWidth |-> emptyString, maxHeight |-> emptyString],
   left |-> I(20), top |-> I(10),
   content |-> [width |-> I(100), height |-> I(60)],
   parentSize |-> [width |-> I(300), height |-> I(200)],
   parent |-> [left |-> I(5), top |-> I(5), offsetWidth |-> I(300), offsetHeight |-> I(200)],
   innerWidth |-> I(400), innerHeight |-> I(300),
   target |-> [exists |-> TRUE, left |-> I(0), top |-> I(0),
               offsetWidth |-> I(250), offsetHeight |-> I(150)],
   flexBasis |-> auto, parentFlexDirection |-> "row"]

SuppliedSizes == {NoSize, SizeOf(I(120), I(80)), SizeOf(Str(I(50), "%"), Str(I(20), "vw")),
                  SizeOf(Str(I(100), "px"), Str(I(30), "vh"))}
LockChoices == {false, true, I(2)}
BoundsChoices == {"undefined", "parent", "window", "#target", "#missing"}
ConstraintChoices ==
  {[minWidth |-> undefined, minHeight |-> undefined,
    maxWidth |-> undefined, maxHeight |-> undefined],
   [minWidth |-> I(50), minHeight |-> Str(I(20), "px"),
    maxWidth |-> Str(I(50), "%"), maxHeight |-> I(90)]}
SnapChoices ==
  {[grid |-> NoGrid, snap |-> [x |-> NoPoints, y |-> NoPoints], snapGap |-> I(0)],
   [grid |-> [defined |-> TRUE, x |-> I(10), y |-> I(10)],
    snap |-> [x |-> Points(<<I(100), I(155)>>), y |-> NoPoints], snapGap |-> I(4)]}
FlexChoices == {auto, Str(I(100), "px")}

\* enable maps a consumer supplies: one that names only the directions it disables,
\* one that names all eight, and one that leaves topRight out
EnableChoices ==
  {[h \in Directions \ {"right", "bottom", "topLeft"} |-> FALSE],
   [h \in Directions |-> h \in {"left", "top", "bottomRight"}],
   [h \in Directions \ {"topRight"} |-> h = "bottomLeft"]}

\* props that differ from the defaults in their sizes and constraints
SizeConfigs ==
  {[DefaultProps EXCEPT !.suppliedSize = s, !.enable = en,
                        !.minWidth = c.minWidth, !.minHeight = c.minHeight,
                        !.maxWidth = c.maxWidth, !.maxHeight = c.maxHeight] :
     s \in SuppliedSizes, c \in ConstraintChoices, en \in EnableChoices}
\* ... in their bounds
BoundsConfigs ==
  {[DefaultProps EXCEPT !.suppliedSize = s, !.enable = en, !.bounds = b] :
     s \in {NoSize, SizeOf(I(120), I(80))}, b \in BoundsChoices \ {"undefined"},
     en \in EnableChoices}
  \cup
  {[DefaultProps EXCEPT !.suppliedSize = s, !.enable = en, !.bounds = b,
                        !.lockAspectRatio = I(2)] :
     s \in {NoSize, SizeOf(I(120), I(80))}, b \in {"window", "#missing"},
     en \in EnableChoices}
\* ... in the aspect lock
LockConfigs ==
  {[DefaultProps EXCEPT !.lockAspectRatio = l, !.enable = en,
                        !.lockAspectRatioExtraWidth = I(10),
                        !.lockAspectRatioExtraHeight = I(4),
                        !.minWidth = c.minWidth, !.minHeight = c.minHeight,
                        !.maxWidth = c.maxWidth, !.maxHeight = c.maxHeight] :
     l \in LockChoices \ {false}, c \in ConstraintChoices, en \in EnableChoices}
\* ... in grid and snap points
SnapConfigs ==
  {[DefaultProps EXCEPT !.suppliedSize = s, !.enable = en,
                        !.grid = g.grid, !.snap = g.snap, !.snapGap = g.snapGap] :
     s \in SuppliedSizes, g \in SnapChoices, en \in EnableChoices}

\* the props of a component that is given none
DefaultConfigs == {DefaultProps}

Configs == SizeConfigs \cup BoundsConfigs \cup LockConfigs \cup SnapConfigs \cup DefaultConfigs

NoEvent == [type |-> "none", button |-> 0, handle |-> "none",
            e |-> MouseEvent("none", 0, Point(0, 0)), wasResizing |-> FALSE]

\* the state after construction and onMount, for the props c and the computed flex-basis fb
Mounted(c, fb) ==
  LET initialSize == IF c.suppliedSize.defined THEN c.suppliedSize ELSE c.defaultSize
      page == [Page EXCEPT !.flexBasis = fb]
  IN [props |-> c,
      minWidth |-> c.minWidth, minHeight |-> c.minHeight,
      maxWidth |-> c.maxWidth, maxHeight |-> c.maxHeight,
      size |-> c.suppliedSize,
      ownSizeState |-> SizeOf(I(0), I(0)),
      sizeStateIsSize |-> FALSE,
      isResizing |-> FALSE,
      ratio |-> I(1),
      direction |-> "undefined",
      original |-> [x |-> I(0), y |-> I(0), width |-> I(0), height |-> I(0)],
      parentLeft |-> I(0), parentTop |-> I(0),
      resizableLeft |-> I(0), resizableRight |-> I(0),
      resizableTop |-> I(0), resizableBottom |-> I(0),
      targetLeft |-> I(0), targetTop |-> I(0),
      flexDir |-> "undefined",
      flexBasis |-> IF fb # auto THEN fb ELSE undefined,
      backdropCursor |-> "undefined",
      listeners |-> {},
      dom |-> [page EXCEPT
                 !.style.maxWidth = IF c.maxWidth.k # "undef" THEN StyleSet(@, c.maxWidth) ELSE @,
                 !.style.maxHeight = IF c.maxHeight.k # "undef" THEN StyleSet(@, c.maxHeight) ELSE @,
                 !.style.width = StyleSet(@, initialSize.width),
                 !.style.height = StyleSet(@, initialSize.height)]]

\* the variables of the component and of the document have the values of the record s
StateIs(s) ==
  /\ props = s.props
  /\ minWidth = s.minWidth /\ minHeight = s.minHeight
  /\ maxWidth = s.maxWidth /\ maxHeight = s.maxHeight
  /\ size = s.size
  /\ ownSizeState = s.ownSizeState
  /\ sizeStateIsSize = s.sizeStateIsSize
  /\ isResizing = s.isResizing
  /\ ratio = s.ratio
  /\ direction = s.direction
  /\ original = s.original
  /\ parentLeft = s.parentLeft /\ parentTop = s.parentTop
  /\ resizableLeft = s.resizableLeft /\ resizableRight = s.resizableRight
  /\ resizableTop = s.resizableTop /\ resizableBottom = s.resizableBottom
  /\ targetLeft = s.targetLeft /\ targetTop = s.targetTop
  /\ flexDir = s.flexDir
  /\ flexBasis = s.flexBasis
  /\ backdropCursor = s.backdropCursor
  /\ listeners = s.listeners
  /\ dom = s.dom
  /\ microtasks = <<>>
  /\ lastEvent = NoEvent
  /\ emitted = <<>>
  /\ thrown = "none"
  /\ lastMove = NoMove
  /\ drags = 0

NoFun == [f |-> "none"]

Init ==
  /\ \E c \in Configs, fb \in FlexChoices :
        /\ (fb # auto => c \in SizeConfigs /\ ~c.suppliedSize.defined
                                           /\ c.minWidth = undefined)
        /\ \E s \in {Mounted(c, fb)} : StateIs(s)
  /\ fin = NoFun
  /\ fout = NoFun

DownPoints == {Point(10, 5)}
MovePoints == {Point(63, 5), Point(-25, 42)}
TouchPoints == {Point(10, -20)}
SecondTouches == {Point(200, 200), Point(-7, 90)}

DownEvents ==
  {MouseEvent("mousedown", b, p) : b \in {0, 2}, p \in DownPoints}
  \cup {TouchEvent("touchstart", <<p>>) : p \in DownPoints}
MoveEvents ==
  {MouseEvent("mousemove", 0, p) : p \in MovePoints}
  \cup {TouchEvent("touchmove", <<p, q>>) : p \in TouchPoints, q \in SecondTouches}
UpEvents ==
  {MouseEvent("mouseup", 0, Point(0, 0)), MouseEvent("mouseleave", 0, Point(0, 0)),
   TouchEvent("touchend", <<>>)}

Next ==
  \/ \E h \in Directions, e \in DownEvents : PointerDown(h, e)
  \/ \E e \in MoveEvents : PointerMove(e)
  \/ \E e \in UpEvents : PointerUp(e)
  \/ RunMicrotask

Spec == Init /\ [][Next]_vars

\* ------------------------------------------------------------------------
\* The steps of the pipeline applied on their own
\* ------------------------------------------------------------------------
\* the state record s after a drag was started on a handle at the point p
Started(s, handle, p) ==
  LET r == getBoundingClientRect(s.dom)
      localSize == getSize(s.dom)
      b == s.props.bounds
  IN [s EXCEPT !.isResizing = TRUE,
               !.listeners = bindEvents({}),
               !.direction = handle,
               !.backdropCursor = cursorForDirection(handle),
               !.original = [x |-> p.clientX, y |-> p.clientY,
                             width |-> localSize.width, height |-> localSize.height],
               !.ratio = IF s.props.lockAspectRatio.k = "num" THEN s.props.lockAspectRatio
                         ELSE Div(localSize.width, localSize.height),
               !.parentLeft = IF b = "parent" THEN s.dom.parent.left ELSE @,
               !.parentTop = IF b = "parent" THEN s.dom.parent.top ELSE @,
               !.targetLeft = IF b = "#target" THEN s.dom.target.left ELSE @,
               !.targetTop = IF b = "#target" THEN s.dom.target.top ELSE @,
               !.resizableLeft = r.left, !.resizableRight = r.right,
               !.resizableTop = r.top, !.resizableBottom = r.bottom]

ClampLocks == {<<false, I(0), I(0)>>, <<true, I(0), I(0)>>, <<true, I(10), I(4)>>,
               <<I(2), I(0), I(0)>>, <<I(2), I(10), I(4)>>}
ClampSizes == {SizeOf(Str(I(100), "px"), auto), SizeOf(Str(I(150), "px"), Str(I(90), "px"))}
ClampPoints == {Point(63, 5), Point(-25, 42), Point(-190, -190)}
ClampMaxWidths == {undefined, I(120), I(80), I(-5)}
ClampMaxHeights == {undefined, I(90), I(40)}
ClampMinWidths == {undefined, I(50), I(130)}
ClampMinHeights == {undefined, I(100)}

\* a drag is in progress; the direction step and the clamp step are applied to a pointer
\* position for a max and a min
InitClamp ==
  /\ \E l \in ClampLocks, ds \in ClampSizes, h \in Directions :
       StateIs(Started(Mounted([DefaultProps EXCEPT !.lockAspectRatio = l[1],
                                                    !.lockAspectRatioExtraWidth = l[2],
                                                    !.lockAspectRatioExtraHeight = l[3],
                                                    !.defaultSize = ds], auto),
                       h, Point(10, 5)))
  /\ fin \in [f : {"clamp"}, p : ClampPoints,
              max : [width : ClampMaxWidths, height : ClampMaxHeights],
              min : [width : ClampMinWidths, height : ClampMinHeights]]
  /\ fout = NoFun

ClampStep ==
  /\ fin.f = "clamp"
  /\ fout = NoFun
  /\ LET candidate == calculateNewSizeFromDirection(fin.p)
     IN fout' = [f |-> "clamp", candidate |-> candidate,
                 result |-> calculateNewSizeFromAspectRatio(candidate.newWidth,
                                                            candidate.newHeight,
                                                            fin.max, fin.min)]
  /\ UNCHANGED <<props, constraintVars, sizeVars, dragVars, rectVars, listeners, dom,
                 microtasks, lastEvent, emitted, thrown, lastMove, drags, fin>>

SpecClamp == InitClamp /\ [][ClampStep]_vars

BoundaryLefts == {20, 400, 450, -100}
BoundaryTops == {10, 300}
BoundaryMaxWidths == {undefined, I(0), I(120), I(500)}
BoundaryMaxHeights == {undefined, I(0), I(90)}

\* a drag is in progress on an element at some position; the boundary step is applied
\* to a caller max
InitBoundary ==
  /\ \E b \in BoundsChoices \ {"#missing"}, bd \in BOOLEAN, h \in Directions,
        x \in BoundaryLefts, y \in BoundaryTops :
       LET m == Mounted([DefaultProps EXCEPT !.bounds = b, !.boundsByDirection = bd], auto)
       IN StateIs(Started([m EXCEPT !.dom.left = I(x), !.dom.top = I(y)], h, Point(10, 5)))
  /\ fin \in [f : {"boundary"}, maxWidth : BoundaryMaxWidths, maxHeight : BoundaryMaxHeights]
  /\ fout = NoFun

BoundaryStep ==
  /\ fin.f = "boundary"
  /\ fout = NoFun
  /\ fout' = [f |-> "boundary", bound |-> BoundaryOf(dom),
              result |-> calculateNewMaxFromBoundary(dom, fin.maxWidth, fin.maxHeight)]
  /\ UNCHANGED <<props, constraintVars, sizeVars, dragVars, rectVars, listeners, dom,
                 microtasks, lastEvent, emitted, thrown, lastMove, drags, fin>>

SpecBoundary == InitBoundary /\ [][BoundaryStep]_vars

DirectionSizes == {SizeOf(Str(I(100), "px"), Str(I(100), "px")), SizeOf(Str(I(100), "px"), auto)}
DirectionScales == {I(1), I(2)}
DirectionRatios == {I(1), I(3)}
DirectionOrigins == {Point(0, 0), Point(10, 5)}
DirectionPoints == {Point(50, 0), Point(-25, 42)}

\* a drag is in progress; the direction step is applied to a pointer position
InitDirection ==
  /\ \E l \in ClampLocks, ds \in DirectionSizes, sc \in DirectionScales,
        rr \in DirectionRatios, h \in Directions, o \in DirectionOrigins :
       StateIs(Started(Mounted([DefaultProps EXCEPT !.lockAspectRatio = l[1],
                                                    !.lockAspectRatioExtraWidth = l[2],
                                                    !.lockAspectRatioExtraHeight = l[3],
                                                    !.scale = sc, !.resizeRatio = rr,
                                                    !.defaultSize = ds], auto),
                       h, o))
  /\ fin \in [f : {"direction"}, p : DirectionPoints]
  /\ fout = NoFun

DirectionStep ==
  /\ fin.f = "direction"
  /\ fout = NoFun
  /\ fout' = [f |-> "direction", candidate |-> calculateNewSizeFromDirection(fin.p)]
  /\ UNCHANGED <<props, constraintVars, sizeVars, dragVars, rectVars, listeners, dom,
                 microtasks, lastEvent, emitted, thrown, lastMove, drags, fin>>

SpecDirection == InitDirection /\ [][DirectionStep]_vars

SnapGaps == {undefined, I(0), I(2), I(3), I(5)}
SnapValues == {I(147), I(145), I(150), I(148), I(3), I(-14), Num(305, 2)}
SnapSteps == {I(10), I(7), I(1), Num(5, 2)}
SnapLists == {<<>>, <<I(100), I(155)>>, <<I(150), I(144)>>, <<I(140), I(150), I(160)>>}

\* a drag is in progress; the grid step and the snap step are applied to a value
InitSnap ==
  /\ \E gap \in SnapGaps :
       StateIs(Started(Mounted([DefaultProps EXCEPT !.snapGap = gap], auto),
                       "right", Point(10, 5)))
  /\ fin \in [f : {"snap"}, v : SnapValues, g : SnapSteps, points : SnapLists]
  /\ fout = NoFun

SnapStep ==
  /\ fin.f = "snap"
  /\ fout = NoFun
  /\ fout' = [f |-> "snap",
              grid |-> GridSnap(fin.v, fin.g),
              again |-> GridSnap(GridSnap(fin.v, fin.g), fin.g),
              point |-> PointSnap(fin.v, Points(fin.points))]
  /\ UNCHANGED <<props, constraintVars, sizeVars, dragVars, rectVars, listeners, dom,
                 microtasks, lastEvent, emitted, thrown, lastMove, drags, fin>>

SpecSnap == InitSnap /\ [][SnapStep]_vars

\* ------------------------------------------------------------------------
\* The component in a page whose layout changes
\* ------------------------------------------------------------------------
\* layouts the page takes after the parent, the viewport or the boxes were resized or moved
Layouts ==
  {[parentSize |-> [width |-> I(400), height |-> I(100)],
    parent |-> [left |-> I(15), top |-> I(0), offsetWidth |-> I(400), offsetHeight |-> I(100)],
    innerWidth |-> I(800), innerHeight |-> I(200),
    left |-> I(30), top |-> I(25),
    target |-> [exists |-> TRUE, left |-> I(10), top |-> I(20),
                offsetWidth |-> I(500), offsetHeight |-> I(300)]]}

\* the layout the component reads changes between two events: what getParentSize,
\* window.innerWidth/innerHeight and getBoundingClientRect return from now on
LayoutChange(l) ==
  /\ microtasks = <<>>
  /\ dom' = [dom EXCEPT !.parentSize = l.parentSize, !.parent = l.parent,
                        !.innerWidth = l.innerWidth, !.innerHeight = l.innerHeight,
                        !.left = l.left, !.top = l.top, !.target = l.target]
  /\ dom' # dom
  /\ UNCHANGED <<props, constraintVars, sizeVars, dragVars, rectVars, listeners, microtasks,
                 lastEvent, emitted, thrown, lastMove, drags, funVars>>

LayoutConstraints ==
  {[minWidth |-> Str(I(10), "%"), minHeight |-> undefined,
    maxWidth |-> Str(I(50), "%"), maxHeight |-> Str(I(30), "vh")],
   [minWidth |-> undefined, minHeight |-> Str(I(5), "vw"),
    maxWidth |-> Str(I(30), "vw"), maxHeight |-> Str(I(100), "px")],
   [minWidth |-> undefined, minHeight |-> I(20),
    maxWidth |-> auto, maxHeight |-> I(90)]}

LayoutEnable == [h \in Directions \ {"right", "topLeft"} |-> FALSE]

LayoutConfigs ==
  {[DefaultProps EXCEPT !.enable = LayoutEnable,
                        !.minWidth = c.minWidth, !.minHeight = c.minHeight,
                        !.maxWidth = c.maxWidth, !.maxHeight = c.maxHeight] :
     c \in LayoutConstraints}
  \cup {[DefaultProps EXCEPT !.enable = LayoutEnable, !.lockAspectRatio = l] :
          l \in LockChoices \ {false}}
  \cup {[DefaultProps EXCEPT !.enable = LayoutEnable, !.bounds = b] :
          b \in {"parent", "#target"}}
  \cup {[DefaultProps EXCEPT !.enable = LayoutEnable,
                             !.suppliedSize = SizeOf(Str(I(100), "px"), auto)]}
  \cup {[DefaultProps EXCEPT !.enable = LayoutEnable,
                             !.maxWidth = I(148), !.minHeight = I(24),
                             !.grid = [defined |-> TRUE, x |-> I(10), y |-> I(10)],
                             !.snap = [x |-> Points(<<I(100), I(155)>>), y |-> NoPoints],
                             !.snapGap = I(4)]}

InitLayout ==
  /\ \E c \in LayoutConfigs : \E s \in {Mounted(c, auto)} : StateIs(s)
  /\ fin = NoFun
  /\ fout = NoFun

NextLayout ==
  \/ \E h \in Directions, e \in DownEvents : PointerDown(h, e)
  \/ \E e \in MoveEvents : PointerMove(e)
  \/ \E e \in UpEvents : PointerUp(e)
  \/ RunMicrotask
  \/ \E l \in Layouts : LayoutChange(l)

SpecLayout == InitLayout /\ [][NextLayout]_vars

\* ------------------------------------------------------------------------
\* A percentage converted to pixels and back
\* ------------------------------------------------------------------------
RoundTripPercents == {I(0), I(1), I(10), I(33), I(50), I(100), I(150), I(-20),
                      Num(25, 2), Num(1, 3), Num(200, 3), Num(999, 10)}
RoundTripParents == {I(1), I(7), I(300), I(400), I(1920), Num(1001, 3)}

InitRoundTrip ==
  /\ \E s \in {Mounted(DefaultProps, auto)} : StateIs(s)
  /\ fin \in [f : {"roundtrip"}, percent : RoundTripPercents, parent : RoundTripParents]
  /\ fout = NoFun

\* getPixelSize applied to 'p%', and the result put back in percent as onMouseMove does
\* for a tracked size in percent
RoundTripStep ==
  /\ fin.f = "roundtrip"
  /\ fout = NoFun
  /\ \E pixels \in {getPixelSize(Str(fin.percent, "%"), fin.parent,
                                  dom.innerWidth, dom.innerHeight)} :
       fout' = [f |-> "roundtrip", pixels |-> pixels,
                back |-> ToUnit(pixels, Str(fin.percent, "%"), fin.parent, dom)]
  /\ UNCHANGED <<props, constraintVars, sizeVars, dragVars, rectVars, listeners, dom,
                 microtasks, lastEvent, emitted, thrown, lastMove, drags, fin>>

SpecRoundTrip == InitRoundTrip /\ [][RoundTripStep]_vars

\* ------------------------------------------------------------------------
\* The grid and snap steps applied to a clamped size
\* ------------------------------------------------------------------------
SnapMoveGrids == {NoGrid, [defined |-> TRUE, x |-> I(10), y |-> I(10)],
                  [defined |-> TRUE, x |-> I(10), y |-> I(7)],
                  [defined |-> TRUE, x |-> I(7), y |-> I(10)]}
SnapMoveXPoints == {NoPoints, Points(<<I(100), I(155)>>), Points(<<I(148), I(151)>>),
                    Points(<<>>)}
SnapMoveYPoints == {NoPoints, Points(<<I(60), I(90)>>), Points(<<I(63)>>)}
SnapMoveGaps == {I(0), I(4)}
SnapMoveWidths == {I(147), I(153), I(96)}
SnapMoveHeights == {I(62), I(88)}

\* a drag is in progress; the grid and snap steps are applied to a clamped size
InitSnapMove ==
  /\ \E g \in SnapMoveGrids, px \in SnapMoveXPoints, py \in SnapMoveYPoints,
        gap \in SnapMoveGaps :
       StateIs(Started(Mounted([DefaultProps EXCEPT !.grid = g, !.snap = [x |-> px, y |-> py],
                                                    !.snapGap = gap], auto),
                       "bottomRight", Point(10, 5)))
  /\ fin \in [f : {"snapmove"},
              clamped : [newWidth : SnapMoveWidths, newHeight : SnapMoveHeights]]
  /\ fout = NoFun

SnapMoveStep ==
  /\ fin.f = "snapmove"
  /\ fout = NoFun
  /\ fout' = [f |-> "snapmove",
              move |-> SnapMove(fin.clamped, FALSE, NoMove.max, NoMove.min, fin.clamped)]
  /\ UNCHANGED <<props, constraintVars, sizeVars, dragVars, rectVars, listeners, dom,
                 microtasks, lastEvent, emitted, thrown, lastMove, drags, fin>>

SpecSnapMove == InitSnapMove /\ [][SnapMoveStep]_vars

\* ------------------------------------------------------------------------
\* The handlers called in every state
\* ------------------------------------------------------------------------
\* onMouseMove and onMouseUp are functions of the component: here each is called with an
\* event whether or not a listener is bound for it, so that they also run while Idle
HandlerConfigs ==
  {[DefaultProps EXCEPT !.suppliedSize = s, !.enable = LayoutEnable] : s \in SuppliedSizes}

InitHandlers ==
  /\ \E c \in HandlerConfigs : \E s \in {Mounted(c, auto)} : StateIs(s)
  /\ fin = NoFun
  /\ fout = NoFun

\* onMouseMove(e) is called
CallMouseMove(e) ==
  /\ microtasks = <<>>
  /\ lastEvent' = [type |-> e.type, button |-> e.button, handle |-> "none",
                    e |-> e, wasResizing |-> isResizing]
  /\ onMouseMove(e)
  /\ UNCHANGED <<drags, funVars>>

\* onMouseUp(e) is called
CallMouseUp(e) ==
  /\ microtasks = <<>>
  /\ lastEvent' = [type |-> e.type, button |-> e.button, handle |-> "none",
                    e |-> e, wasResizing |-> isResizing]
  /\ onMouseUp
  /\ thrown' = "none"
  /\ UNCHANGED <<drags, funVars>>

NextHandlers ==
  \/ \E h \in Directions, e \in DownEvents : PointerDown(h, e)
  \/ \E e \in MoveEvents : CallMouseMove(e)
  \/ \E e \in UpEvents : CallMouseUp(e)
  \/ RunMicrotask

SpecHandlers == InitHandlers /\ [][NextHandlers]_vars

\* ------------------------------------------------------------------------
\* The action variant: resizable(node, options) of old-src/index.ts
\* ------------------------------------------------------------------------
\* The variant keeps the same state in the closure of the action and has the same size
\* pipeline, word for word; its handlers differ and are modelled here. sizeState is a
\* const object of its own (sizeStateIsSize stays FALSE) and nothing is deferred.
isMouseEvent(e) ==
  /\ (Truthy(e.clientX) \/ StrictEq(e.clientX, I(0)))
  /\ (Truthy(e.clientY) \/ StrictEq(e.clientY, I(0)))

old_bindEvents(ls) ==
  ls \cup {Listener("mouseup", "onMouseUp", FALSE),
           Listener("mousemove", "onMouseMove", FALSE),
           Listener("mouseleave", "onMouseUp", FALSE),
           Listener("touchmove", "onMouseMove", TRUE),
           Listener("touchend", "onMouseUp", FALSE)}

\* defined in the file, called from nowhere
old_unbindEvents(ls) ==
  ls \ {Listener("mouseup", "onMouseUp", FALSE),
        Listener("mousemove", "onMouseMove", FALSE),
        Listener("mouseleave", "onMouseUp", FALSE),
        Listener("touchmove", "onMouseMove", TRUE),
        Listener("touchend", "onMouseUp", FALSE)}

\* every bounds string is looked up as a selector here, 'parent' included
old_setBoundingClientRect ==
  LET r == getBoundingClientRect(dom)
      selector == bounds # "undefined"
      found == querySelector(dom, bounds)
  IN /\ IF bounds = "parent"
        THEN parentLeft' = dom.parent.left /\ parentTop' = dom.parent.top
        ELSE UNCHANGED <<parentLeft, parentTop>>
     /\ IF selector /\ ~found
        THEN /\ thrown' = "bounds-not-found"
             /\ UNCHANGED <<resizableLeft, resizableRight, resizableTop, resizableBottom,
                            targetLeft, targetTop>>
        ELSE /\ thrown' = "none"
             /\ IF selector
                THEN targetLeft' = dom.target.left /\ targetTop' = dom.target.top
                ELSE UNCHANGED <<targetLeft, targetTop>>
             /\ resizableLeft' = r.left
             /\ resizableRight' = r.right
             /\ resizableTop' = r.top
             /\ resizableBottom' = r.bottom

old_onResizeStart(e, directionParam) ==
  IF isMouseEvent(e) /\ e.button = 2      \* e.which === 3
  THEN /\ emitted' = <<>>
       /\ thrown' = "none"
       /\ UNCHANGED <<props, constraintVars, sizeVars, dragVars, rectVars, listeners, dom,
                      microtasks, lastMove>>
  ELSE
    LET p == IF isMouseEvent(e) THEN [clientX |-> e.clientX, clientY |-> e.clientY]
             ELSE IF isTouchEvent(e) THEN e.touches[1]
             ELSE [clientX |-> I(0), clientY |-> I(0)]
        copied == IF size.defined
                  THEN [sizeState EXCEPT
                          !.height = IF size.height.k # "undef" /\ ~StrictEq(size.height, @)
                                     THEN size.height ELSE @,
                          !.width = IF size.width.k # "undef" /\ ~StrictEq(size.width, @)
                                    THEN size.width ELSE @]
                  ELSE sizeState
        localSize == getSize(dom)
        flex == dom.flexBasis # auto
    IN /\ emitted' = <<Notification("svelte-resizable:start", directionParam, NoDelta)>>
       /\ ownSizeState' = copied
       /\ UNCHANGED <<size, sizeStateIsSize>>
       /\ ratio' = RatioAtStart(localSize)
       /\ flexDir' = IF flex
                     THEN (IF dom.parentFlexDirection \in {"row", "row-reverse"}
                           THEN "row" ELSE "column")
                     ELSE flexDir
       /\ old_setBoundingClientRect
       /\ IF thrown' # "none"
          THEN UNCHANGED <<listeners, original, isResizing, backdropCursor, direction,
                           flexBasis, lastMove>>
          ELSE /\ listeners' = old_bindEvents(listeners)
               /\ original' = [x |-> p.clientX, y |-> p.clientY,
                               width |-> localSize.width, height |-> localSize.height]
               /\ isResizing' = TRUE
               /\ backdropCursor' = "auto"
               /\ direction' = directionParam
               /\ flexBasis' = IF flex THEN dom.flexBasis ELSE undefined
               /\ lastMove' = NoMove
       /\ UNCHANGED <<props, constraintVars, dom, microtasks>>

old_onMouseMove(e) ==
  IF ~isResizing
  THEN /\ emitted' = <<>>
       /\ thrown' = "none"
       /\ UNCHANGED <<props, constraintVars, sizeVars, dragVars, rectVars, listeners, dom,
                      microtasks, lastMove>>
  ELSE
    \E dimensions \in {IF isTouchEvent(e) THEN e.touches[1] ELSE e},
       parentSize \in {getParentSize(dom)} :
    \E max \in {calculateNewMax(parentSize, dom.innerWidth, dom.innerHeight,
                                maxWidth, maxHeight, minWidth, minHeight)} :
    \E m \in {MoveSizes(dimensions, max)} :
    \E delta \in {MoveDelta(m.resolved)},
       newWidth \in {ToUnit(m.resolved.newWidth, sizeState.width, parentSize.width, dom)},
       newHeight \in {ToUnit(m.resolved.newHeight, sizeState.height, parentSize.height, dom)} :
    \E newState \in {[sizeState EXCEPT
                        !.width = createSizeForCssProperty(newWidth, "width"),
                        !.height = createSizeForCssProperty(newHeight, "height")]} :
       /\ maxWidth' = max.maxWidth
       /\ maxHeight' = max.maxHeight
       /\ minWidth' = max.minWidth
       /\ minHeight' = max.minHeight
       /\ IF m.throw
          THEN /\ thrown' = "bounds-not-found"
               /\ emitted' = <<>>
               /\ UNCHANGED <<sizeVars, flexBasis, lastMove>>
          ELSE /\ thrown' = "none"
               /\ ownSizeState' = newState
               /\ UNCHANGED <<size, sizeStateIsSize>>
               /\ flexBasis' = IF flexDir = "row" THEN NumberToString(newState.width)
                               ELSE IF flexDir = "column" THEN NumberToString(newState.height)
                               ELSE undefined
               /\ emitted' = <<Notification("svelte-resizable:resize", direction, delta)>>
               /\ lastMove' = [handled |-> TRUE, candidate |-> m.candidate, max |-> m.max,
                               min |-> m.min, clamped |-> m.clamped,
                               resolved |-> m.resolved, written |-> newState]
       /\ UNCHANGED <<props, isResizing, ratio, direction, original, flexDir, backdropCursor,
                      rectVars, listeners, dom, microtasks>>

\* removeBackdrop: the backdrop appendBackdrop created was never inserted into the
\* document, so parent.removeChild(backdropEl) raises NotFoundError and the statement
\* after it, isResizing = false, is not reached; unbindEvents is not called at all
old_onMouseUp ==
  IF ~isResizing
  THEN /\ emitted' = <<>>
       /\ thrown' = "none"
       /\ UNCHANGED <<props, constraintVars, sizeVars, dragVars, rectVars, listeners, dom,
                      microtasks, lastMove>>
  ELSE
    \E measured \in {getSize(dom)} :
       /\ emitted' = <<Notification("svelte-resizable:stop", direction, StopDelta(measured))>>
       /\ ownSizeState' = [sizeState EXCEPT !.height = measured.height,
                                             !.width = measured.width]
       /\ thrown' = "not-a-child"
       /\ UNCHANGED <<props, constraintVars, size, sizeStateIsSize, dragVars, rectVars,
                      listeners, dom, microtasks, lastMove>>

\* the handles the pointer goes down on
ActionHandles == {"right", "topLeft"}

ActionConfigs ==
  {[DefaultProps EXCEPT !.grid = [defined |-> TRUE, x |-> I(1), y |-> I(1)],
                        !.suppliedSize = s, !.bounds = b] :
     s \in {NoSize, SizeOf(I(120), I(80))}, b \in {"undefined", "parent", "#target"}}

\* the state after resizable(node, options) returned
InitAction ==
  /\ \E c \in ActionConfigs :
       \E s \in {[Mounted(c, auto) EXCEPT
                    !.ownSizeState = IF c.suppliedSize.defined THEN c.suppliedSize
                                     ELSE SizeOf(c.defaultSize.width, c.defaultSize.height),
                    !.direction = "right",
                    !.dom = Page]} : StateIs(s)
  /\ fin = NoFun
  /\ fout = NoFun

\* a pointer-down on a handle of the node
old_PointerDown(handle, e) ==
  /\ drags < MaxDrags
  /\ drags' = drags + 1
  /\ UNCHANGED funVars
  /\ lastEvent' = [type |-> e.type, button |-> e.button, handle |-> handle,
                    e |-> e, wasResizing |-> isResizing]
  /\ old_onResizeStart(e, handle)

old_PointerMove(e) ==
  IF HandlerFor(e.type) = "onMouseMove"
  THEN /\ lastEvent' = [type |-> e.type, button |-> e.button, handle |-> "none",
                         e |-> e, wasResizing |-> isResizing]
       /\ old_onMouseMove(e)
       /\ UNCHANGED <<drags, funVars>>
  ELSE Undelivered

old_PointerUp(e) ==
  IF HandlerFor(e.type) = "onMouseUp"
  THEN /\ lastEvent' = [type |-> e.type, button |-> e.button, handle |-> "none",
                         e |-> e, wasResizing |-> isResizing]
       /\ old_onMouseUp
       /\ UNCHANGED <<drags, funVars>>
  ELSE Undelivered

NextAction ==
  \/ \E h \in ActionHandles, e \in DownEvents : old_PointerDown(h, e)
  \/ \E e \in MoveEvents : old_PointerMove(e)
  \/ \E e \in UpEvents : old_PointerUp(e)

SpecAction == InitAction /\ [][NextAction]_vars

\* ------------------------------------------------------------------------
\* Claims
\* ------------------------------------------------------------------------
UpTypes == {"mouseup", "mouseleave", "touchend"}
MoveTypes == {"mousemove", "touchmove"}
DownTypes == {"mousedown", "touchstart"}
AllListeners == bindEvents({})
Emits(type) == \E i \in 1..Len(emitted) : emitted[i].type = type

\* C1: a pointer-down made with the right mouse button on a handle leaves the
\* controller Idle: the dragging flag is false, no global listener is bound and no
\* resize-start notification was emitted by it.
C1_RightButtonNeverStartsDrag ==
  (lastEvent.type = "mousedown" /\ lastEvent.button = 2 /\ ~lastEvent.wasResizing)
    => (~isResizing /\ listeners = {} /\ ~Emits("resize-start"))

\* C2: after every handler the five global listeners are bound if and only if the
\* controller is Dragging; every return to Idle leaves all five unbound.
C2_ListenersBoundIffDragging ==
  listeners = (IF isResizing THEN AllListeners ELSE {})

\* C2 witness: a second drag was ended by the pointer leaving the window
C2_Witness ==
  drags = 2 /\ lastEvent.type = "mouseleave" /\ lastEvent.wasResizing
  /\ ~isResizing /\ listeners = {}

\* C3: when bounds is a selector that matches no element, a pointer-down raises the
\* boundary-target-not-found error and leaves Idle with the persisted size, aspect
\* ratio, flex direction, Drag Origin, direction, rect snapshot and listener bindings
\* as they were before the pointer-down.
C3_FailedStartChangesNothing ==
  [][(bounds = "#missing" /\ lastEvent'.type \in DownTypes /\ drags' = drags + 1)
       => /\ thrown' = "bounds-not-found"
          /\ ~isResizing'
          /\ sizeState' = sizeState
          /\ UNCHANGED <<ratio, flexDir, original, direction, rectVars, listeners>>]_vars

\* C4: every resize-start notification carries the direction of the handle whose
\* pointer-down started the drag.
C4_StartCarriesHandleDirection ==
  \A i \in 1..Len(emitted) :
    emitted[i].type = "resize-start" => emitted[i].direction = lastEvent.handle

\* C5: every resize notification carries delta = (pixel size resolved by the pipeline
\* for that move) - (Drag Origin size) on both axes, as numbers of pixels, also when
\* the persisted size is expressed in %, vw or vh.
C5_MoveDeltaIsResolvedMinusOrigin ==
  \A i \in 1..Len(emitted) :
    emitted[i].type = "resize" =>
      /\ lastMove.handled
      /\ IsNum(emitted[i].delta.width) /\ IsNum(emitted[i].delta.height)
      /\ Add(emitted[i].delta.width, original.width) = lastMove.resolved.newWidth
      /\ Add(emitted[i].delta.height, original.height) = lastMove.resolved.newHeight

\* C5 witness: a move of a later drag whose persisted width is a percentage and whose
\* persisted height is in vw, with a non-zero delta
C5_Witness ==
  /\ Emits("resize") /\ drags = 2
  /\ sizeState.width.k = "%" /\ sizeState.height.k = "vw"
  /\ emitted[1].delta.width.n # 0

\* C6: the resize-stop notification carries the direction of the drag and
\* delta = (measured size of the element) - (origin size) on both axes.
C6_StopDeltaIsMeasuredMinusOrigin ==
  \A i \in 1..Len(emitted) :
    emitted[i].type = "resize-stop" =>
      /\ emitted[i].direction = direction
      /\ emitted[i].delta.width = Sub(getBoundingClientRect(dom).width, original.width)
      /\ emitted[i].delta.height = Sub(getBoundingClientRect(dom).height, original.height)

\* C7: after drag-end the persisted size equals the external size the consumer
\* supplied, if one is supplied; otherwise it is the size written by the last move.
C7_ConsumerSizeWinsAtDragEnd ==
  (lastEvent.type \in UpTypes /\ lastEvent.wasResizing) =>
     IF props.suppliedSize.defined
     THEN sizeState = props.suppliedSize
     ELSE (lastMove.handled => sizeState = lastMove.written)

\* the min the clamp step applies when none is configured
MinOrDefault(m) == IF m.k = "undef" THEN I(10) ELSE m

\* C8 (as claimed): the size returned by the clamp step is within [min, max] on both
\* axes for every candidate and every min/max configuration, also when min exceeds max.
C8_ClampedWithinMinMax ==
  fout.f = "clamp" =>
    /\ Le(MinOrDefault(fin.min.width), fout.result.newWidth)
    /\ Le(MinOrDefault(fin.min.height), fout.result.newHeight)
    /\ (IsNum(fin.max.width) => Le(fout.result.newWidth, fin.max.width))
    /\ (IsNum(fin.max.height) => Le(fout.result.newHeight, fin.max.height))

\* the lower bound that applies to the width: min, and under aspect lock also the
\* width the min height stands for
LowerWidth ==
  IF LockOn
  THEN MathMax(MinOrDefault(fin.min.width),
               Add(Mul(Sub(MinOrDefault(fin.min.height), lockAspectRatioExtraHeight), ratio),
                   lockAspectRatioExtraWidth))
  ELSE MinOrDefault(fin.min.width)
LowerHeight ==
  IF LockOn
  THEN MathMax(MinOrDefault(fin.min.height),
               Add(Div(Sub(MinOrDefault(fin.min.width), lockAspectRatioExtraWidth), ratio),
                   lockAspectRatioExtraHeight))
  ELSE MinOrDefault(fin.min.height)

\* C8 (amended): the size returned by the clamp step is at least min on both axes in
\* every configuration, and at most max on an axis whenever max is given, not negative,
\* and not below the lower bound that applies to that axis.
C8_ClampedWithinOrderedMinMax ==
  fout.f = "clamp" =>
    /\ Le(MinOrDefault(fin.min.width), fout.result.newWidth)
    /\ Le(MinOrDefault(fin.min.height), fout.result.newHeight)
    /\ (IsNum(fin.max.width) /\ Le(I(0), fin.max.width) /\ Le(LowerWidth, fin.max.width)
          => Le(fout.result.newWidth, fin.max.width))
    /\ (IsNum(fin.max.height) /\ Le(I(0), fin.max.height) /\ Le(LowerHeight, fin.max.height)
          => Le(fout.result.newHeight, fin.max.height))

\* C8 witness: min exceeds max on the width, and the height was cut down to its max
C8_Witness ==
  /\ fout.f = "clamp"
  /\ IsNum(fin.min.width) /\ IsNum(fin.max.width) /\ Lt(fin.max.width, fin.min.width)
  /\ fout.result.newWidth = fin.min.width
  /\ ~LockOn
  /\ IsNum(fin.max.height) /\ fout.result.newHeight = fin.max.height
  /\ Lt(fin.max.height, fout.candidate.newHeight)

\* C9 (as claimed): with aspect lock active the pair returned by the clamp step
\* satisfies width = height * ratio + extraWidth.
C9_LockedRatioIgnoringExtraHeight ==
  (fout.f = "clamp" /\ LockOn) =>
    fout.result.newWidth = Add(Mul(fout.result.newHeight, ratio), lockAspectRatioExtraWidth)

\* C9 (amended): with aspect lock active the pair returned by the clamp step satisfies
\* width = (height - extraHeight) * ratio + extraWidth.
C9_LockedRatioKept ==
  (fout.f = "clamp" /\ LockOn) =>
    fout.result.newWidth =
      Add(Mul(Sub(fout.result.newHeight, lockAspectRatioExtraHeight), ratio),
          lockAspectRatioExtraWidth)

\* C9 witness: aspect lock with extra width and height, and the clamp changed the candidate
C9_Witness ==
  /\ fout.f = "clamp" /\ LockOn
  /\ lockAspectRatioExtraHeight # I(0)
  /\ fout.result # fout.candidate
  /\ IsNum(fin.max.height) /\ fout.result.newHeight = fin.max.height

\* min(callerMax, boundary), the boundary alone when there is no caller max
MinOfMax(callerMax, boundary) ==
  IF callerMax.k = "undef" THEN boundary ELSE MathMin(callerMax, boundary)

\* C10: on each axis the boundary step returns min(callerMax, boundaryMax) whenever the
\* boundary value is finite (also for boundary 0, caller max 0 and negative boundary
\* values), and callerMax unchanged when the boundary value is undefined or not finite.
C10_EffectiveMaxIsMin ==
  fout.f = "boundary" =>
    /\ fout.result.maxWidth =
         (IF NumberIsFinite(fout.bound.boundWidth)
          THEN MinOfMax(fin.maxWidth, fout.bound.boundWidth) ELSE fin.maxWidth)
    /\ fout.result.maxHeight =
         (IF NumberIsFinite(fout.bound.boundHeight)
          THEN MinOfMax(fin.maxHeight, fout.bound.boundHeight) ELSE fin.maxHeight)

\* the directions that include the left edge, and those that include the top edge
LeftDirections == {"left", "topLeft", "bottomLeft"}
TopDirections == {"top", "topLeft", "topRight"}

\* C11: with bounds = parent, the boundary width of a drag whose direction includes
\* left is, when boundsByDirection holds, the distance from the element's right edge at
\* drag-start to the parent's left edge, and its boundary height for a direction that
\* includes top is the distance from the element's bottom edge to the parent's top edge;
\* on every other axis it is the parent's size plus (parent origin - element origin).
C11_ParentBoundaryByDirection ==
  (fout.f = "boundary" /\ bounds = "parent") =>
    LET r == getBoundingClientRect(dom)
    IN /\ fout.bound.boundWidth =
            (IF boundsByDirection /\ direction \in LeftDirections
             THEN Sub(r.right, dom.parent.left)
             ELSE Add(dom.parent.offsetWidth, Sub(dom.parent.left, r.left)))
       /\ fout.bound.boundHeight =
            (IF boundsByDirection /\ direction \in TopDirections
             THEN Sub(r.bottom, dom.parent.top)
             ELSE Add(dom.parent.offsetHeight, Sub(dom.parent.top, r.top)))

\* C11 witness: a drag by the topLeft handle of an element that reaches beyond the
\* parent's left edge, bounded by direction on both axes
C11_Witness ==
  /\ fout.f = "boundary" /\ bounds = "parent" /\ boundsByDirection
  /\ direction = "topLeft"
  /\ Lt(dom.left, dom.parent.left)
  /\ fout.bound.boundWidth = Sub(resizableRight, parentLeft)
  /\ fout.bound.boundHeight = Sub(resizableBottom, parentTop)

\* C12: with bounds = 'window' a pointer-down on a handle raises no error and enters
\* Dragging.
C12_WindowBoundsStartDragging ==
  (bounds = "window" /\ lastEvent.type \in DownTypes /\ ~lastEvent.wasResizing)
    => (thrown = "none" /\ isResizing)

RightDirections == {"right", "topRight", "bottomRight"}
BottomDirections == {"bottom", "bottomLeft", "bottomRight"}

\* the pointer delta from the Drag Origin, times resizeRatio / scale
ScaledDx == Div(Mul(Sub(fin.p.clientX, original.x), props.resizeRatio), props.scale)
ScaledDy == Div(Mul(Sub(fin.p.clientY, original.y), props.resizeRatio), props.scale)

\* C13: with aspect lock off, the candidate width is originWidth + dx*resizeRatio/scale
\* when the direction includes right and originWidth - dx*resizeRatio/scale when it
\* includes left; the candidate height is originHeight + dy*resizeRatio/scale for bottom
\* and originHeight - dy*resizeRatio/scale for top. Direction right, origin 100x100 at
\* (0,0), pointer at (50,0), scale 1 and resizeRatio 1 give 150x100.
C13_CandidateFromDirection ==
  (fout.f = "direction" /\ ~LockOn) =>
    /\ direction \in RightDirections
         => fout.candidate.newWidth = Add(original.width, ScaledDx)
    /\ direction \in LeftDirections
         => fout.candidate.newWidth = Sub(original.width, ScaledDx)
    /\ direction \in BottomDirections
         => fout.candidate.newHeight = Add(original.height, ScaledDy)
    /\ direction \in TopDirections
         => fout.candidate.newHeight = Sub(original.height, ScaledDy)
    /\ (/\ direction = "right" /\ original.width = I(100) /\ original.height = I(100)
        /\ original.x = I(0) /\ original.y = I(0) /\ fin.p = Point(50, 0)
        /\ props.scale = I(1) /\ props.resizeRatio = I(1))
         => fout.candidate = [newWidth |-> I(150), newHeight |-> I(100)]

\* C13 witness: a drag to the left and up on a scaled page with a resize ratio
C13_Witness ==
  /\ fout.f = "direction" /\ ~LockOn
  /\ direction = "topLeft" /\ props.scale = I(2) /\ props.resizeRatio = I(3)
  /\ fin.p = Point(-25, 42) /\ original.x = I(10) /\ original.y = I(5)
  /\ fout.candidate = [newWidth |-> Num(305, 2), newHeight |-> Num(89, 2)]

\* the edges a direction tag is made of
EdgesOf(d) ==
  {e \in {"top", "right", "bottom", "left"} :
     \/ e = "top" /\ d \in TopDirections
     \/ e = "right" /\ d \in RightDirections
     \/ e = "bottom" /\ d \in BottomDirections
     \/ e = "left" /\ d \in LeftDirections}

\* C14: with aspect lock off the candidate differs from the origin size only on the
\* axes the direction implies: top and bottom leave the width at the origin width, left
\* and right leave the height at the origin height; and a direction tag matches the edge
\* checks of exactly the edges it is made of.
C14_OnlyImpliedAxesChange ==
  (fout.f = "direction" /\ ~LockOn) =>
    /\ direction \in {"top", "bottom"} => fout.candidate.newWidth = original.width
    /\ direction \in {"left", "right"} => fout.candidate.newHeight = original.height
    /\ \A e \in {"top", "right", "bottom", "left"} :
         hasDirection(e, direction) <=> e \in EdgesOf(direction)
    /\ Cardinality(EdgesOf(direction)) =
         (IF direction \in {"top", "right", "bottom", "left"} THEN 1 ELSE 2)
    /\ (direction \notin {"top", "right", "bottom", "left"} /\ ScaledDx # I(0)
         /\ ScaledDy # I(0))
         => (fout.candidate.newWidth # original.width
             /\ fout.candidate.newHeight # original.height)

\* C14 witness: the pointer moved on both axes during a drag by the bottom handle, and
\* only the height changed
C14_Witness ==
  /\ fout.f = "direction" /\ ~LockOn /\ direction = "bottom"
  /\ ScaledDx # I(0) /\ ScaledDy # I(0)
  /\ fout.candidate.newWidth = original.width
  /\ fout.candidate.newHeight # original.height

\* C15 (as claimed): with aspect lock active and a single-edge direction the axis the
\* pointer does not drive is width = height * ratio + extraWidth for top and bottom, and
\* height = (width - extraWidth) / ratio + extraHeight for left and right.
C15_LockedCandidateIgnoringExtraHeight ==
  (fout.f = "direction" /\ LockOn) =>
    /\ direction \in {"top", "bottom"} =>
         fout.candidate.newWidth =
           Add(Mul(fout.candidate.newHeight, ratio), props.lockAspectRatioExtraWidth)
    /\ direction \in {"left", "right"} =>
         fout.candidate.newHeight =
           Add(Div(Sub(fout.candidate.newWidth, props.lockAspectRatioExtraWidth), ratio),
               props.lockAspectRatioExtraHeight)

\* C15 (amended): with aspect lock active and a single-edge direction the axis the
\* pointer does not drive is width = (height - extraHeight) * ratio + extraWidth for top
\* and bottom, and height = (width - extraWidth) / ratio + extraHeight for left and
\* right, the driven axis being origin +/- delta*resizeRatio/scale; ratio 1, direction
\* right, origin 100x100 and a pointer moved by (50,0) give 150x150.
C15_LockedCandidateFromDrivenAxis ==
  (fout.f = "direction" /\ LockOn) =>
    /\ direction \in {"top", "bottom"} =>
         /\ fout.candidate.newHeight =
              (IF direction = "bottom" THEN Add(original.height, ScaledDy)
               ELSE Sub(original.height, ScaledDy))
         /\ fout.candidate.newWidth =
              Add(Mul(Sub(fout.candidate.newHeight, props.lockAspectRatioExtraHeight), ratio),
                  props.lockAspectRatioExtraWidth)
    /\ direction \in {"left", "right"} =>
         /\ fout.candidate.newWidth =
              (IF direction = "right" THEN Add(original.width, ScaledDx)
               ELSE Sub(original.width, ScaledDx))
         /\ fout.candidate.newHeight =
              Add(Div(Sub(fout.candidate.newWidth, props.lockAspectRatioExtraWidth), ratio),
                  props.lockAspectRatioExtraHeight)
    /\ (/\ direction = "right" /\ ratio = I(1) /\ props.lockAspectRatioExtraWidth = I(0)
        /\ props.lockAspectRatioExtraHeight = I(0)
        /\ original.width = I(100) /\ original.height = I(100)
        /\ original.x = I(0) /\ original.y = I(0) /\ fin.p = Point(50, 0)
        /\ props.scale = I(1) /\ props.resizeRatio = I(1))
         => fout.candidate = [newWidth |-> I(150), newHeight |-> I(150)]

\* C15 witness: a locked drag by the top handle with extra width and height
C15_Witness ==
  /\ fout.f = "direction" /\ LockOn /\ direction = "top"
  /\ props.lockAspectRatioExtraHeight = I(4) /\ props.lockAspectRatioExtraWidth = I(10)
  /\ fout.candidate.newHeight # original.height
  /\ fout.candidate.newWidth # original.width

\* the example of C15: aspect lock set to true on a square element
C15_Example ==
  /\ fout.f = "direction" /\ lockAspectRatio = true /\ direction = "right"
  /\ ratio = I(1) /\ original.x = I(0) /\ fin.p = Point(50, 0)
  /\ props.scale = I(1) /\ props.resizeRatio = I(1)
  /\ fout.candidate = [newWidth |-> I(150), newHeight |-> I(150)]

\* the snapGap in effect: 0 when none is given
GapInEffect == IF props.snapGap.k = "undef" THEN I(0) ELSE props.snapGap

\* the multiples of the step g just below and just above v
MultipleBelow(v, g) == LET q == Div(v, g) IN Mul(I(q.n \div q.d), g)
MultipleAbove(v, g) == Add(MultipleBelow(v, g), g)
\* the distance from v to the nearest multiple of g, and the multiples at that distance
GridDistance(v, g) ==
  MathMin(MathAbs(Sub(v, MultipleBelow(v, g))), MathAbs(Sub(MultipleAbove(v, g), v)))
NearestMultiples(v, g) ==
  {m \in {MultipleBelow(v, g), MultipleAbove(v, g)} : MathAbs(Sub(m, v)) = GridDistance(v, g)}

\* C16: the grid snap of a value v with step g returns the nearest multiple of g when
\* snapGap is 0 or the nearest multiple is at most snapGap away, and v otherwise; with
\* g = 10, v = 147 gives 150 for snapGap 0 and 147 for snapGap 2.
C16_GridSnapWithinGap ==
  fout.f = "snap" =>
    /\ IF GapInEffect = I(0) \/ Le(GridDistance(fin.v, fin.g), GapInEffect)
       THEN fout.grid \in NearestMultiples(fin.v, fin.g)
       ELSE fout.grid = fin.v
    /\ (fin.v = I(147) /\ fin.g = I(10) /\ props.snapGap = I(0)) => fout.grid = I(150)
    /\ (fin.v = I(147) /\ fin.g = I(10) /\ props.snapGap = I(2)) => fout.grid = I(147)

\* C16 witness: the nearest multiple is exactly snapGap away and is taken
C16_Witness ==
  /\ fout.f = "snap" /\ fin.v = I(147) /\ fin.g = I(10) /\ props.snapGap = I(3)
  /\ fout.grid = I(150)

\* the points of a list at minimal distance from v
NearestPoints(v, list) ==
  {list[i] : i \in {i \in 1..Len(list) :
                     \A j \in 1..Len(list) :
                       Le(MathAbs(Sub(list[i], v)), MathAbs(Sub(list[j], v)))}}

\* C17: the point snap of a value v returns a point of the list at minimal distance
\* from v when snapGap is 0 or that distance is strictly less than snapGap, and v
\* otherwise; for an empty list it returns v.
C17_PointSnapPicksNearest ==
  fout.f = "snap" =>
    IF Len(fin.points) = 0
    THEN fout.point = fin.v
    ELSE IF GapInEffect = I(0)
            \/ \E q \in NearestPoints(fin.v, fin.points) :
                 Lt(MathAbs(Sub(q, fin.v)), GapInEffect)
    THEN fout.point \in NearestPoints(fin.v, fin.points)
    ELSE fout.point = fin.v

\* C17 for the lists that have a point
C17_NonEmptyListPicksNearest ==
  (fout.f = "snap" /\ Len(fin.points) = 0) \/ C17_PointSnapPicksNearest

\* C18: the grid snap is idempotent: the grid snap of an already grid-snapped value is
\* that value, for every value, step g > 0 and snapGap >= 0.
C18_GridSnapIdempotent ==
  fout.f = "snap" => fout.again = fout.grid

\* C18 witness: a value off the grid was moved onto it, and the second snap kept it
C18_Witness ==
  /\ fout.f = "snap" /\ fout.grid # fin.v /\ fout.again = fout.grid
  /\ fin.g = Num(5, 2) /\ props.snapGap = I(2)

\* C19: when a dimension has the size 'auto' and no external size is supplied (the
\* default size), a pointer move that resolves the dimension to exactly its origin value
\* leaves the persisted dimension 'auto'; a drag by the right handle of an element with
\* the default auto height keeps the persisted height 'auto'.
C19_AutoDimensionStaysAuto ==
  (lastEvent.type \in MoveTypes /\ lastMove.handled /\ ~props.suppliedSize.defined) =>
    /\ (defaultSize.width = auto /\ lastMove.resolved.newWidth = original.width)
         => sizeState.width = auto
    /\ (defaultSize.height = auto /\ lastMove.resolved.newHeight = original.height)
         => sizeState.height = auto

\* the persisted dimension after a move, for the dimension before it, the resolved
\* pixels and the lengths a unit refers to
Reexpressed(before, resolved, parentLength, d) ==
  CASE before.k = "%" -> Str(Div(Mul(resolved, I(100)), parentLength), "%")
    [] before.k = "vw" -> Str(Div(Mul(resolved, I(100)), d.innerWidth), "vw")
    [] before.k = "vh" -> Str(Div(Mul(resolved, I(100)), d.innerHeight), "vh")
    [] OTHER -> resolved

\* C20: every pointer move of a drag leaves a persisted dimension that was in %, vw or
\* vh in that same unit, with magnitude = resolved pixels * 100 / (parent size on that
\* axis, viewport width, viewport height), and stores the resolved pixel value for a
\* dimension that was in px or a plain number.
C20_MoveKeepsUnit ==
  [][(lastEvent'.type \in MoveTypes /\ lastMove'.handled
      /\ sizeState.width.k \in {"%", "vw", "vh", "px", "num"}
      /\ sizeState.height.k \in {"%", "vw", "vh", "px", "num"})
       => /\ sizeState'.width = Reexpressed(sizeState.width, lastMove'.resolved.newWidth,
                                            dom'.parentSize.width, dom')
          /\ sizeState'.height = Reexpressed(sizeState.height, lastMove'.resolved.newHeight,
                                             dom'.parentSize.height, dom')]_vars

\* C20 witness: a move changed a size given as 100px by 30vh: the width is stored as a
\* number of pixels and the height in vh
C20_Witness ==
  /\ lastEvent.type \in MoveTypes /\ lastMove.handled
  /\ props.suppliedSize = SizeOf(Str(I(100), "px"), Str(I(30), "vh"))
  /\ sizeState.width.k = "num" /\ sizeState.width = lastMove.resolved.newWidth
  /\ sizeState.height.k = "vh" /\ sizeState.height # Str(I(30), "vh")

\* a step in which onMouseMove ran to its end: it queued the style callback
HandledMove ==
  microtasks = <<>> /\ Len(microtasks') = 1 /\ microtasks'[1].op = "style"

\* the pixels a configured constraint stands for, given the reference length of its axis
\* and the viewport of the document d
PixelsOf(v, referenceSize, d) ==
  CASE v.k = "%" -> Div(Mul(referenceSize, Str(v, "num")), I(100))
    [] v.k = "vw" -> Div(Mul(d.innerWidth, Str(v, "num")), I(100))
    [] v.k = "vh" -> Div(Mul(d.innerHeight, Str(v, "num")), I(100))
    [] v.k \in {"px", "num"} -> Str(v, "num")
    [] OTHER -> undefined

\* C21: min/max constraints given in % or vw/vh are resolved to pixels on every pointer
\* move against the parent and viewport size current at that move: after the parent or
\* the viewport changed size between two moves of one drag, or between two drags, the
\* later move clamps against bounds computed from the configured constraint and the new
\* size.
C21_ConstraintsResolvedAtEachMove ==
  [][(HandledMove /\ props.maxWidth # auto)
       => /\ lastMove'.min.width = PixelsOf(props.minWidth, dom'.parentSize.width, dom')
          /\ lastMove'.min.height = PixelsOf(props.minHeight, dom'.parentSize.height, dom')
          /\ bounds = "undefined" =>
               /\ lastMove'.max.width = PixelsOf(props.maxWidth, dom'.parentSize.width, dom')
               /\ lastMove'.max.height =
                    PixelsOf(props.maxHeight, dom'.parentSize.height, dom')]_vars

\* C22: round trip: for a fixed parent width P > 0 and every percent value p, converting
\* 'p%' to pixels gives P*p/100, and re-expressing that pixel value in percent against
\* the same P gives back 'p%' (exactly, in exact arithmetic).
C22_PercentRoundTrip ==
  fout.f = "roundtrip" =>
    /\ fout.pixels = Div(Mul(fin.parent, fin.percent), I(100))
    /\ fout.back = Str(fin.percent, "%")

\* C22 witness: 12.5% of a parent 300 wide is 37.5 pixels, and 37.5 pixels are 12.5%
C22_Witness ==
  /\ fout.f = "roundtrip" /\ fin.percent = Num(25, 2) /\ fin.parent = I(300)
  /\ fout.pixels = Num(75, 2) /\ fout.back = Str(Num(25, 2), "%")

\* the mouse event at the position of the primary touch point of a touch event
PrimaryAlone(e) == MouseEvent("mousemove", 0, e.touches[1])

\* C23: during a drag, a touch-move event is resolved from the primary (first) touch
\* point only: the candidate size is the one computed from its coordinates, and the
\* whole step (persisted size, emitted delta, queued style) is the step taken for that
\* point alone, whatever the secondary touch points of the event are.
C23_TouchMoveUsesPrimaryTouch ==
  [][(lastEvent'.type = "touchmove" /\ Len(lastEvent'.e.touches) > 1 /\ HandledMove)
       => /\ lastMove'.candidate = calculateNewSizeFromDirection(lastEvent'.e.touches[1])
          /\ onMouseMove(PrimaryAlone(lastEvent'.e))]_vars

\* C23 witness: a touch-move with a second touch point far from the first resized the
\* element by the first one
C23_Witness ==
  /\ lastEvent.type = "touchmove" /\ lastMove.handled /\ Emits("resize")
  /\ lastEvent.e.touches[2] = Point(-7, 90)
  /\ direction = "bottom"
  /\ emitted[1].delta.height = Sub(lastEvent.e.touches[1].clientY, original.y)
  /\ emitted[1].delta.height # I(0)

\* the directions the supplied enable map sets to false
DisabledDirections == {h \in DOMAIN props.enable : ~props.enable[h]}

\* C24: a drag can be started only in a direction whose enable flag is true; with no
\* enable map all eight directions are enabled, and a partial enable map leaves every
\* direction it omits enabled while disabling exactly those it sets to false.
C24_DragOnlyFromEnabledHandle ==
  /\ enable = [h \in Directions |-> h \notin DisabledDirections]
  /\ props.enable = enableDefault => \A h \in Directions : enable[h]
  /\ lastEvent.type \in DownTypes => lastEvent.handle \notin DisabledDirections
  /\ isResizing => direction \notin DisabledDirections

\* C24 witness: a drag runs in a direction the supplied enable map leaves out, and the
\* map disables other directions
C24_Witness ==
  /\ isResizing /\ direction = "topRight"
  /\ "topRight" \notin DOMAIN props.enable
  /\ DisabledDirections # {} /\ props.enable["bottomLeft"]

\* a drag runs in a direction of a component that was given no enable map
C24_DefaultWitness ==
  isResizing /\ direction = "bottomLeft" /\ props.enable = enableDefault /\ drags = 2

\* the value the clamp step returns on one axis without aspect lock, as claimed: min is
\* 10 when none is given, max is the candidate itself when none is given or it is negative
ClampedAxis(candidate, min, max) ==
  LET lower == IF min.k = "undef" THEN I(10) ELSE min
      upper == IF max.k = "undef" \/ Lt(max, I(0)) THEN candidate ELSE max
      capped == IF Lt(upper, candidate) THEN upper ELSE candidate
  IN IF Lt(capped, lower) THEN lower ELSE capped

\* C25: when no min is configured the clamp step uses min = 10 on each axis, and when
\* max is unspecified or negative it uses the candidate's own value as max; so without
\* aspect lock and without bounds a candidate >= 10 is returned unchanged and a
\* candidate < 10 is raised to 10.
C25_DefaultMinAndMax ==
  (fout.f = "clamp" /\ ~LockOn) =>
    /\ fout.result.newWidth = ClampedAxis(fout.candidate.newWidth, fin.min.width, fin.max.width)
    /\ fout.result.newHeight =
         ClampedAxis(fout.candidate.newHeight, fin.min.height, fin.max.height)
    /\ (fin.min.width = undefined /\ (fin.max.width = undefined \/ Lt(fin.max.width, I(0))))
         => fout.result.newWidth = (IF Lt(fout.candidate.newWidth, I(10)) THEN I(10)
                                    ELSE fout.candidate.newWidth)
    /\ (fin.min.height = undefined /\ fin.max.height = undefined)
         => fout.result.newHeight = (IF Lt(fout.candidate.newHeight, I(10)) THEN I(10)
                                     ELSE fout.candidate.newHeight)

\* C25 witness: no min, a negative max width and no max height; a candidate width below
\* 10 is raised to 10 and the candidate height is returned unchanged
C25_Witness ==
  /\ fout.f = "clamp" /\ ~LockOn /\ direction = "right"
  /\ fin.min = [width |-> undefined, height |-> undefined]
  /\ fin.max = [width |-> I(-5), height |-> undefined]
  /\ fout.candidate = [newWidth |-> I(-100), newHeight |-> I(60)]
  /\ fout.result = [newWidth |-> I(10), newHeight |-> I(60)]

\* a candidate above 10 kept under a negative max
C25_KeptWitness ==
  /\ fout.f = "clamp" /\ ~LockOn /\ fin.min.width = undefined /\ fin.max.width = I(-5)
  /\ fout.candidate.newWidth = I(153) /\ fout.result.newWidth = I(153)

\* the values a constraint is given as
ConstraintKinds == {"%", "vw", "vh", "px", "num", "auto", "undef"}

\* C26: resolving a min/max constraint to pixels gives referenceSize*p/100 for 'p%',
\* viewportWidth*p/100 for 'pvw', viewportHeight*p/100 for 'pvh', n for 'npx' or a plain
\* number n, and undefined for 'auto' or an unset constraint, so that an 'auto' or unset
\* max acts as unbounded in the clamp step and the size resolved by a move is always a
\* number.
C26_ConstraintResolvedToPixels ==
  [][(HandledMove /\ maxWidth.k \in ConstraintKinds /\ maxHeight.k \in ConstraintKinds
      /\ minWidth.k \in ConstraintKinds /\ minHeight.k \in ConstraintKinds)
       => /\ maxWidth' = PixelsOf(maxWidth, dom.parentSize.width, dom)
          /\ maxHeight' = PixelsOf(maxHeight, dom.parentSize.height, dom)
          /\ minWidth' = PixelsOf(minWidth, dom.parentSize.width, dom)
          /\ minHeight' = PixelsOf(minHeight, dom.parentSize.height, dom)
          /\ IsNum(lastMove'.resolved.newWidth)
          /\ IsNum(lastMove'.resolved.newHeight)]_vars

\* C26 for the constraints that are not 'auto'
C26_ResolvedUnlessAuto ==
  [][(HandledMove /\ maxWidth.k \in ConstraintKinds \ {"auto"}
      /\ maxHeight.k \in ConstraintKinds /\ minWidth.k \in ConstraintKinds
      /\ minHeight.k \in ConstraintKinds)
       => /\ maxWidth' = PixelsOf(maxWidth, dom.parentSize.width, dom)
          /\ maxHeight' = PixelsOf(maxHeight, dom.parentSize.height, dom)
          /\ minWidth' = PixelsOf(minWidth, dom.parentSize.width, dom)
          /\ minHeight' = PixelsOf(minHeight, dom.parentSize.height, dom)
          /\ IsNum(lastMove'.resolved.newWidth)
          /\ IsNum(lastMove'.resolved.newHeight)]_vars

\* the grid snap of one axis when a grid is configured, the value itself otherwise
GriddedAxis(v, step) == IF props.grid.defined THEN GridSnap(v, step) ELSE v

\* C27: on each axis the final size of a move is pointSnap(gridSnap(clamped value)): grid
\* snapping is applied to the clamped value first and point snapping to the grid-snapped
\* result; the width result is a function of the clamped width, the width grid step and
\* the x snap points alone, and the height result of their counterparts.
C27_PointSnapAfterGridSnap ==
  fout.f = "snapmove" =>
    /\ fout.move.resolved.newWidth =
         PointSnap(GriddedAxis(fin.clamped.newWidth, props.grid.x), props.snap.x)
    /\ fout.move.resolved.newHeight =
         PointSnap(GriddedAxis(fin.clamped.newHeight, props.grid.y), props.snap.y)

\* C27 witness: 147 goes to 150 on the grid and from there to the snap point 151, while
\* the point nearest to 147 is 148; the height has another grid step and other points
C27_Witness ==
  /\ fout.f = "snapmove" /\ props.grid.defined /\ props.grid.x = I(10) /\ props.grid.y = I(7)
  /\ props.snap.x = Points(<<I(148), I(151)>>) /\ props.snap.y = Points(<<I(60), I(90)>>)
  /\ props.snapGap = I(0)
  /\ fin.clamped = [newWidth |-> I(147), newHeight |-> I(62)]
  /\ fout.move.resolved = [newWidth |-> I(151), newHeight |-> I(60)]

\* onResizeStart has run to its end and its queued callback is still to run
JustStarted ==
  /\ lastEvent.type \in DownTypes /\ isResizing
  /\ Len(microtasks) = 1 /\ microtasks[1].op = "ensureMinMaxDimensions"

\* C28: at every drag-start, including drags that follow an earlier resize of the same
\* element (when the element has an explicit, non-auto styled height), the Drag Origin
\* records width = the element's measured width and height = the element's measured
\* height.
C28_OriginIsMeasuredSize ==
  JustStarted =>
    /\ original.width = getBoundingClientRect(dom).width
    /\ original.height = getBoundingClientRect(dom).height

\* C28 restricted to the drag-starts of an element whose styled height is 'auto'
C28_OriginIsMeasuredSizeOfAutoHeight ==
  (JustStarted /\ dom.style.height = auto) =>
    /\ original.width = getBoundingClientRect(dom).width
    /\ original.height = getBoundingClientRect(dom).height

\* a step in which onResizeStart ran to its end
StartStep == lastEvent'.type \in DownTypes /\ drags' = drags + 1 /\ isResizing'

\* C29: at drag-start the aspect ratio is set to the configured number when
\* lockAspectRatio is numeric, and otherwise to (origin width / origin height) of the
\* Drag Origin captured at that same drag-start; the ratio is not changed by pointer
\* moves or drag-end (by no step taken while dragging).
C29_RatioSetAtDragStart ==
  [][/\ StartStep =>
          ratio' = (IF props.lockAspectRatio.k = "num" THEN props.lockAspectRatio
                    ELSE Div(original'.width, original'.height))
     /\ isResizing => ratio' = ratio]_vars

\* C29 witness: a move of a second drag under lockAspectRatio = true, with the ratio of
\* the origin captured at the second drag-start, which is not the ratio of the first
C29_Witness ==
  /\ drags = 2 /\ isResizing /\ lockAspectRatio = true
  /\ lastEvent.type \in MoveTypes /\ lastMove.handled
  /\ ratio = Div(original.width, original.height)
  /\ ratio # Div(Page.content.width, Page.content.height)

\* a drag under a configured numeric ratio that differs from the measured one
C29_NumericWitness ==
  /\ isResizing /\ lockAspectRatio = I(2) /\ ratio = I(2)
  /\ Div(original.width, original.height) # I(2)

\* the pointer position a pointer-down event carries
DownPoint(e) == IF Len(e.touches) > 0 THEN e.touches[1] ELSE e

\* C30: the Drag Origin and the boundary rect snapshot are overwritten with fresh
\* readings at every drag-start: the origin with the pointer position and the size
\* measured then, the snapshot with the edges of the element and of the box the bounds
\* mode refers to (the parent for 'parent', the target for a selector); they are left
\* unchanged by every pointer move and by drag-end (by every step taken while dragging).
C30_SnapshotTakenAtDragStart ==
  [][/\ StartStep =>
          /\ original' = [x |-> DownPoint(lastEvent'.e).clientX,
                          y |-> DownPoint(lastEvent'.e).clientY,
                          width |-> getSize(dom).width, height |-> getSize(dom).height]
          /\ resizableLeft' = dom.left /\ resizableTop' = dom.top
          /\ resizableRight' = Add(dom.left, LayoutWidth(dom))
          /\ resizableBottom' = Add(dom.top, LayoutHeight(dom))
          /\ bounds = "parent" => (parentLeft' = dom.parent.left /\ parentTop' = dom.parent.top)
          /\ bounds = "#target" => (targetLeft' = dom.target.left /\ targetTop' = dom.target.top)
     /\ isResizing => UNCHANGED <<original, rectVars>>]_vars

\* C30 witness: a move of a second drag, started after the element, the parent and the
\* page were laid out anew; the snapshot holds the edges read at the second drag-start
C30_Witness ==
  /\ drags = 2 /\ isResizing /\ bounds = "parent"
  /\ lastEvent.type \in MoveTypes /\ lastMove.handled
  /\ parentLeft = I(15) /\ parentTop = I(0)
  /\ resizableLeft = I(30) /\ resizableTop = I(25)
  /\ resizableRight # Add(I(30), Page.content.width)

\* the same under a selector
C30_TargetWitness ==
  /\ drags = 2 /\ isResizing /\ bounds = "#target"
  /\ lastEvent.type \in MoveTypes /\ lastMove.handled
  /\ targetLeft = I(10) /\ targetTop = I(20) /\ resizableLeft = I(30)

\* the point of an event the handlers read: the first touch or the mouse position
Dimensions(e) == IF e.touches # <<>> THEN e.touches[1] ELSE [clientX |-> e.clientX, clientY |-> e.clientY]

\* a dimension persisted by a move straight after the drag start, when the tracked
\* dimension is the one of the size the consumer supplied
FirstPersisted(n, kind, parentLength) ==
  IF size[kind] = auto /\ n = original[kind] THEN auto
  ELSE Reexpressed(size[kind], n, parentLength, dom)

\* the delta and the persisted size of a move that resolved the sizes m, had it been the
\* first move of the drag
FirstMoveResultOf(m) ==
  [delta |-> [width |-> Sub(m.resolved.newWidth, original.width),
              height |-> Sub(m.resolved.newHeight, original.height)],
   width |-> FirstPersisted(m.resolved.newWidth, "width", dom.parentSize.width),
   height |-> FirstPersisted(m.resolved.newHeight, "height", dom.parentSize.height)]

\* ... for the pointer position p
FirstMoveResult(p) ==
  FirstMoveResultOf(MoveSizes(p, calculateNewMax(getParentSize(dom), dom.innerWidth,
                                                 dom.innerHeight,
                                                 maxWidth, maxHeight, minWidth, minHeight)))

\* C31: within one drag with unchanged layout and configuration, the result of a move to
\* the pointer position p depends only on p and the Drag Origin: in the first drag of an
\* element with a supplied size, every move to p emits the delta and leaves the persisted
\* size that a move to p gives straight after the drag start, whatever positions were
\* visited before.
C31_MoveResultDependsOnPositionOnly ==
  [][(HandledMove /\ size.defined /\ ~sizeStateIsSize)
       => \A r \in {FirstMoveResult(Dimensions(lastEvent'.e))} :
            /\ emitted'[1].delta = r.delta
            /\ sizeState'.width = r.width
            /\ sizeState'.height = r.height]_vars

\* a step in which onMouseMove or onMouseUp ran while the controller was Idle
IdleCall ==
  ~isResizing /\ microtasks = <<>> /\ lastEvent'.type \in MoveTypes \cup UpTypes

\* C32: while the controller is Idle, a pointer-move and a pointer-up/leave/touch-end
\* each change no controller state (persisted size, origin, direction, ratio,
\* constraints, flex-basis; nor the dragging flag, the rect snapshot, the listeners, the
\* document or the queue of write-backs) and emit no notification.
C32_IdleHandlersChangeNothing ==
  [][IdleCall => /\ UNCHANGED <<sizeVars, dragVars, constraintVars, rectVars, listeners,
                                 dom, microtasks>>
                 /\ emitted' = <<>>]_vars

\* C32 witness: after a drag that moved the element and was ended, onMouseMove ran again
C32_Witness ==
  /\ ~isResizing /\ ~lastEvent.wasResizing /\ lastEvent.type \in MoveTypes
  /\ drags = 1 /\ lastMove.handled /\ emitted = <<>>

\* C32 witness: after a drag was started and ended, onMouseUp ran again for a touchend
C32_UpWitness ==
  /\ ~isResizing /\ ~lastEvent.wasResizing /\ lastEvent.type = "touchend"
  /\ drags = 1 /\ emitted = <<>>

\* the notifications of a type among those the step's handler emitted
EmittedNow(type) == {i \in 1..Len(emitted') : emitted'[i].type = type}

\* C33: in every event sequence, resize notifications are emitted only while Dragging,
\* and each period of Dragging ends with exactly one resize-stop notification: the step
\* that ends the period emits one resize-stop and nothing else, and no other step emits a
\* resize-stop, also when mouseup, mouseleave and touchend all arrive for the same drag.
C33_OneStopPerDrag ==
  [][(microtasks = <<>>)
       => /\ EmittedNow("resize") # {} => (isResizing /\ isResizing')
          /\ (isResizing /\ ~isResizing')
               => (Len(emitted') = 1 /\ EmittedNow("resize-stop") = {1})
          /\ EmittedNow("resize-stop") # {} => (isResizing /\ ~isResizing')]_vars

\* C33 witness: a drag that moved the element was ended and emitted its resize-stop
C33_Witness ==
  /\ lastEvent.type \in UpTypes /\ lastEvent.wasResizing /\ ~isResizing
  /\ lastMove.handled
  /\ Len(emitted) = 1 /\ emitted[1].type = "resize-stop"

\* C33 witness: after the mouseup or touchend that ended the drag, the mouseleave of the
\* same drag arrived and emitted nothing
C33_RepeatWitness ==
  /\ lastEvent.type = "mouseleave" /\ ~lastEvent.wasResizing /\ ~isResizing
  /\ drags = 1 /\ lastMove.handled /\ emitted = <<>>

\* C34: a resize-start notification is emitted only by a pointer-down that leaves the
\* controller in Dragging, so that no resize-start is left without a drag (and without
\* the resize-stop that ends it): after every pointer-down that emitted resize-start the
\* controller is Dragging.
C34_StartOnlyWithDrag ==
  (lastEvent.type \in DownTypes /\ Emits("resize-start")) => isResizing

CornerDirections == {"topRight", "bottomRight", "bottomLeft", "topLeft"}

\* C35: with aspect lock active and a corner direction the candidate is determined by
\* the vertical pointer delta alone: height = originHeight + dy*resizeRatio/scale for the
\* bottom corners and originHeight - dy*resizeRatio/scale for the top corners, and the
\* width is derived from that height through the ratio (and the extra width and height),
\* so that the horizontal delta dx has no effect: a pointer at any other clientX gives
\* the same candidate.
C35_LockedCornerFollowsDy ==
  (fout.f = "direction" /\ LockOn /\ direction \in CornerDirections) =>
    /\ fout.candidate.newHeight =
         (IF direction \in BottomDirections THEN Add(original.height, ScaledDy)
          ELSE Sub(original.height, ScaledDy))
    /\ fout.candidate.newWidth =
         Add(Mul(Sub(fout.candidate.newHeight, props.lockAspectRatioExtraHeight), ratio),
             props.lockAspectRatioExtraWidth)
    /\ \A x \in {-25, 0, 50} :
         calculateNewSizeFromDirection([clientX |-> I(x), clientY |-> fin.p.clientY])
           = fout.candidate

\* C35 witness: a locked drag by the bottomLeft corner that moved the pointer on both
\* axes
C35_Witness ==
  /\ fout.f = "direction" /\ LockOn /\ direction = "bottomLeft"
  /\ ScaledDx # I(0) /\ ScaledDy # I(0)
  /\ fout.candidate.newHeight = Add(original.height, ScaledDy)
  /\ fout.candidate.newWidth # Sub(original.width, ScaledDx)

\* the size sz is at least min and, where a max is given, at most max on both axes
WithinBounds(sz, min, max) ==
  /\ Le(MinOrDefault(min.width), sz.newWidth)
  /\ Le(MinOrDefault(min.height), sz.newHeight)
  /\ (IsNum(max.width) => Le(sz.newWidth, max.width))
  /\ (IsNum(max.height) => Le(sz.newHeight, max.height))

\* C36: after every pointer move of a drag the size resolved by the full pipeline (after
\* grid and point snapping) is at most the effective max and at least the min on each
\* axis: snapping never moves the size outside the bounds, so whenever the clamped size
\* is within the bounds the resolved size is too.
C36_SnappedWithinBounds ==
  (lastEvent.type \in MoveTypes /\ lastMove.handled
   /\ WithinBounds(lastMove.clamped, lastMove.min, lastMove.max))
    => WithinBounds(lastMove.resolved, lastMove.min, lastMove.max)

\* the pixels a style width and a style height stand for in the current layout
StyledWidth(v) == UsedLength(v, dom.parentSize.width, dom.content.width)
StyledHeight(v) == UsedLength(v, dom.parentSize.height, dom.content.height)

C38_StyleIsExternalSizeWhenIdle ==
  (lastEvent.type \in UpTypes /\ lastEvent.wasResizing /\ ~isResizing
   /\ size.defined /\ lastMove.handled /\ microtasks = <<>>)
    => /\ dom.style.width = getStringSize(size.width)
       /\ dom.style.height = getStringSize(size.height)
       /\ dom.style.width = getStringSize(sizeState.width)
       /\ dom.style.height = getStringSize(sizeState.height)

\* C39: in the action variant a drag-end (mouseup, mouseleave or touchend while
\* resizing) unbinds the global listeners that drag-start bound, so that after any
\* sequence of complete drags no global listener of the controller remains bound.
C39_ActionDragEndUnbinds ==
  [][(isResizing /\ lastEvent'.type \in UpTypes)
       => (listeners' = old_unbindEvents(listeners) /\ listeners' = {})]_vars

====
